---------------------------- MODULE Spec2Model ----------------------------
(***************************************************************************)
(* Verification model of the kanzi block transforms: the BWT block codec   *)
(* (Go), the BWT engine, the ROLZ codecs and the EXE filter (C++).         *)
(*                                                                         *)
(* Every transform is a function of one block.  Each specification of this *)
(* module draws a block in its initial state, runs forward and then        *)
(* inverse as actions and records what they did.                           *)
(***************************************************************************)
EXTENDS Integers, Sequences, FiniteSets, TLC

VARIABLES
    cPhase,     \* BWTBlockCodec: "idle" | "start" | "encoded" | "decoded"
    cBlock,     \* BWTBlockCodec: the block handed to Forward and what the BWT reported
    cDst,       \* BWTBlockCodec: the buffer Forward produced / Inverse reads
    cFwd,       \* BWTBlockCodec: what Forward returned
    cInv,       \* BWTBlockCodec: what Inverse did
    bPhase,     \* BWT: "idle" | "start" | "forward" | "tasks" | "done"
    bBlock,     \* BWT: the block x, its length, the chunk count and _jobs
    bFwd,       \* BWT: the permuted bytes and _primaryIndexes forward left
    bTables,    \* BWT: buckets, fastBits and _buffer shared by the biPSIv2 tasks
    bTasks,     \* BWT: the InverseBiPSIv2Task objects, each at its position in run()
    bDst,       \* BWT: the cells of dst written so far (index |-> byte)
    bRet,       \* BWT: what inverse returned and how far it moved the indexes
    ePhase,     \* EXE: "idle" | "start" | "forward" | "declined" | "inverse"
    eBlock,     \* EXE: the block and what detectType found (mode, codeStart, codeEnd)
    eFwd,       \* EXE: what forwardX86 / forwardARM returned and wrote
    eInv,       \* EXE: what inverse returned and wrote
    r1Phase,    \* ROLZ1: "idle" | "start" | "forward" | "declined" | "inverse"
    r1Block,    \* ROLZ1: the block x, count and output._length
    r1Fwd,      \* ROLZ1: what forward returned and the chunks it wrote
    r1Inv,      \* ROLZ1: what inverse returned and the cells of dst it wrote
    r2Phase,    \* ROLZ2: "idle" | "start" | "forward" | "declined" | "inverse"
    r2Block,    \* ROLZ2: the block x, count and output._length
    r2Fwd,      \* ROLZ2: what forward returned and the symbols it coded
    r2Inv,      \* ROLZ2: what inverse returned and the cells of dst it wrote
    wPhase,     \* ROLZCodec: "idle" | "start" | "done"
    wCall,      \* ROLZCodec: the arguments of the call to forward
    wRet,       \* ROLZCodec: how the call ended
    vPhase,     \* UTFCodec::validate: "idle" | "start" | "done"
    vBlock,     \* UTFCodec::validate: the bytes of the block
    vRet,       \* UTFCodec::validate: what it returned
    aPhase,     \* UTF alias: "idle" | "start" | "forward" | "inverse"
    aAlias,     \* UTF alias: the alias forward emits
    aDst,       \* UTF alias: the bytes forward emitted and the byte after them
    aInv        \* UTF alias: the alias inverse read and its srcIdx

codecVars == <<cPhase, cBlock, cDst, cFwd, cInv>>

bwtVars == <<bPhase, bBlock, bFwd, bTables, bTasks, bDst, bRet>>

exeVars == <<ePhase, eBlock, eFwd, eInv>>

rolz1Vars == <<r1Phase, r1Block, r1Fwd, r1Inv>>

rolz2Vars == <<r2Phase, r2Block, r2Fwd, r2Inv>>

wrapVars == <<wPhase, wCall, wRet>>

validateVars == <<vPhase, vBlock, vRet>>

aliasVars == <<aPhase, aAlias, aDst, aInv>>

vars == <<codecVars, bwtVars, exeVars, rolz1Vars, rolz2Vars, wrapVars, validateVars, aliasVars>>

\* What an action of one transform leaves alone.
NotCodec == <<bwtVars, exeVars, rolz1Vars, rolz2Vars, wrapVars, validateVars, aliasVars>>

NotBWT == <<codecVars, exeVars, rolz1Vars, rolz2Vars, wrapVars, validateVars, aliasVars>>

NotEXE == <<codecVars, bwtVars, rolz1Vars, rolz2Vars, wrapVars, validateVars, aliasVars>>

NotROLZ1 == <<codecVars, bwtVars, exeVars, rolz2Vars, wrapVars, validateVars, aliasVars>>

NotROLZ2 == <<codecVars, bwtVars, exeVars, rolz1Vars, wrapVars, validateVars, aliasVars>>

NotWrap == <<codecVars, bwtVars, exeVars, rolz1Vars, rolz2Vars, validateVars, aliasVars>>

NotValidate == <<codecVars, bwtVars, exeVars, rolz1Vars, rolz2Vars, wrapVars, aliasVars>>

NotAlias == <<codecVars, bwtVars, exeVars, rolz1Vars, rolz2Vars, wrapVars, validateVars>>

\* A BWT object no specification is running: as its constructor leaves it.
NoTables == [shift |-> 0, buckets |-> <<>>, fastBits |-> <<>>, data |-> <<>>, lastc |-> 0]

NoChase == [reads |-> {}, eight |-> 0, n |-> 0]

NoRet == [called |-> FALSE, ok |-> FALSE, inIdx |-> 0, outIdx |-> 0, fault |-> FALSE,
          chase |-> NoChase]

BWTIdle ==
    /\ bPhase = "idle"
    /\ bBlock = [x |-> <<>>, count |-> 0, chunks |-> 1, jobs |-> 1]
    /\ bFwd = [src |-> <<>>, primaryIndexes |-> [c \in 0..7 |-> 0]]
    /\ bTables = NoTables
    /\ bTasks = <<>>
    /\ bDst = <<>>
    /\ bRet = NoRet

\* An X86Codec no specification is running.
NoEXE == [ok |-> FALSE, dst |-> <<>>, inIdx |-> 0, outIdx |-> 0, matches |-> 0, srcEnd |-> 0, fpRun |-> 0]

EXEIdle ==
    /\ ePhase = "idle"
    /\ eBlock = [mode |-> 0, src |-> <<>>, codeStart |-> 0, codeEnd |-> 0]
    /\ eFwd = NoEXE
    /\ eInv = NoEXE

\* A ROLZCodec no specification is calling.
NoCall == [count |-> 0, validInput |-> TRUE, validOutput |-> TRUE, sameArray |-> FALSE]

NoWrapRet == [returned |-> FALSE, thrown |-> FALSE, ok |-> FALSE, delegated |-> FALSE]

WrapIdle ==
    /\ wPhase = "idle"
    /\ wCall = NoCall
    /\ wRet = NoWrapRet

\* A validator no specification is calling.
ValidateIdle ==
    /\ vPhase = "idle"
    /\ vBlock = <<>>
    /\ vRet = FALSE

NoAliasDst == [dst |-> <<>>, dstIdx |-> 0]

NoAliasInv == [alias |-> 0, srcIdx |-> 0]

\* An alias coder no specification is running.
AliasIdle ==
    /\ aPhase = "idle"
    /\ aAlias = 0
    /\ aDst = NoAliasDst
    /\ aInv = NoAliasInv

\* A ROLZCodec1 no specification is running.
NoROLZ1Fwd == [ok |-> FALSE, inIdx |-> 0, outIdx |-> 0, chunks |-> <<>>, tail |-> <<>>,
               fault |-> FALSE, entry |-> <<>>, exit |-> <<>>, calls |-> <<>>]

NoROLZ1Inv == [ok |-> FALSE, inIdx |-> 0, outIdx |-> 0, dst |-> <<>>, fault |-> FALSE,
               success |-> TRUE, entry |-> <<>>, exit |-> <<>>]

ROLZ1Idle ==
    /\ r1Phase = "idle"
    /\ r1Block = [x |-> <<>>, count |-> 0, outLength |-> 0]
    /\ r1Fwd = NoROLZ1Fwd
    /\ r1Inv = NoROLZ1Inv

\* A ROLZCodec2 no specification is running.
NoROLZ2Fwd == [ok |-> FALSE, inIdx |-> 0, outIdx |-> 0, stream |-> <<>>, resets |-> {},
               entry |-> <<>>, exit |-> <<>>]

NoROLZ2Inv == [ok |-> FALSE, symbols |-> 0, outIdx |-> 0, resets |-> {}, dst |-> <<>>,
               inLock |-> TRUE, caught |-> <<>>, entry |-> <<>>, exit |-> <<>>]

ROLZ2Idle ==
    /\ r2Phase = "idle"
    /\ r2Block = [x |-> <<>>, count |-> 0, outLength |-> 0]
    /\ r2Fwd = NoROLZ2Fwd
    /\ r2Inv = NoROLZ2Inv

-----------------------------------------------------------------------------
(* Integer helpers.  Shifts are computed by repeated halving/doubling so   *)
(* that no intermediate value leaves the range of the operands.            *)

RECURSIVE Shr(_, _)
Shr(x, k) == IF k = 0 THEN x ELSE Shr(x \div 2, k - 1)

RECURSIVE Shl(_, _)
Shl(x, k) == IF k = 0 THEN x ELSE Shl(x * 2, k - 1)

Min(a, b) == IF a < b THEN a ELSE b

Max(a, b) == IF a > b THEN a ELSE b

ByteOf(v) == v % 256

-----------------------------------------------------------------------------
(*                     BWTBlockCodec (Go)                                   *)
(*                                                                         *)
(* A buffer of up to 2^30 bytes is kept in closed form: its first bytes    *)
(* explicitly (lead), the rest as the permuted block Y moved by off:       *)
(*   buf[i] = lead[i+1]      for i < Len(lead)                             *)
(*   buf[i] = Y(i - off)     for Len(lead) <= i < len                      *)

\* Byte i of the permuted block the BWT forward left in dst.
PermutedByte(i) == (i * 7 + 3) % 256

BufAt(buf, i) == IF i < Len(buf.lead) THEN buf.lead[i + 1] ELSE PermutedByte(i - buf.off)

\* dst right after bwt.Forward(src, dst): the n permuted bytes at dst[0..n-1].
AfterBWTForward(n) == [len |-> n, lead |-> <<>>, off |-> 0]


\* The shift loop of Forward (lines 65-67): dst[i+hs] = dst[i], i from n-1 down
\* to 0.  Bytes 0..hs-1 keep what they held.
ShiftRight(buf, hs) ==
    [len |-> buf.len + hs,
     lead |-> [i \in 1..hs |-> BufAt(buf, i - 1)],
     off |-> buf.off + hs]

BufWrite(buf, i, b) == [buf EXCEPT !.lead[i + 1] = b]

\* for 1<<pIndexSizeBits <= primaryIndex { pIndexSizeBits++ }   (lines 52-56)
\* 1<<k <= p is evaluated as (p >> k) >= 1.
RECURSIVE PIndexSizeBitsFrom(_, _)
PIndexSizeBitsFrom(bits, primaryIndex) ==
    IF Shr(primaryIndex, bits) >= 1
    THEN PIndexSizeBitsFrom(bits + 1, primaryIndex)
    ELSE bits

PIndexSizeBits(primaryIndex) == PIndexSizeBitsFrom(6, primaryIndex)

\* headerSizeBytes := (2 + pIndexSizeBits + 7) >> 3   (line 58)
HeaderSizeBytes(primaryIndex) == Shr(2 + PIndexSizeBits(primaryIndex) + 7, 3)

\* blockMode = ((pIndexSizeBits+1)>>3) << 6 | ((primaryIndex >> shift) & 0x3F);
\* dst[0] = byte(blockMode)   (lines 72-75).  The two operands of | share no bit.
ModeByte(primaryIndex, headerSizeBytes) ==
    ByteOf(Shl(Shr(PIndexSizeBits(primaryIndex) + 1, 3), 6)
           + (Shr(primaryIndex, Shl(headerSizeBytes - 1, 3)) % 64))

\* dst[i] = byte(primaryIndex >> shift), shift = ((headerSizeBytes-1)<<3) - 8*i
\* (lines 77-80)
HeaderByte(primaryIndex, headerSizeBytes, i) ==
    IF i = 0 THEN ModeByte(primaryIndex, headerSizeBytes)
    ELSE ByteOf(Shr(primaryIndex, Shl(headerSizeBytes - 1, 3) - 8 * i))

RECURSIVE WriteHeader(_, _, _, _)
WriteHeader(buf, primaryIndex, headerSizeBytes, i) ==
    IF i >= headerSizeBytes THEN buf
    ELSE WriteHeader(BufWrite(buf, i, HeaderByte(primaryIndex, headerSizeBytes, i)),
                     primaryIndex, headerSizeBytes, i + 1)

\* BWTBlockCodec.Forward on a block of n bytes whose BWT reported primaryIndex.
\* Returns the buffer and (iIdx, oIdx).
CodecForward(n, primaryIndex) ==
    LET hs == HeaderSizeBytes(primaryIndex)
        shifted == ShiftRight(AfterBWTForward(n), hs)
    IN [dst |-> WriteHeader(shifted, primaryIndex, hs, 0),
        iIdx |-> n,
        oIdx |-> n + hs,
        headerSizeBytes |-> hs]

\* BWTBlockCodec.MaxEncodedLen (lines 126-129)
MaxEncodedLen(srcLen) == srcLen + 4

\* Header decoding of Inverse (lines 98-118)
InvHeaderSize(blockMode) == 1 + (Shr(blockMode, 6) % 4)

RECURSIVE InvPrimaryIndexFrom(_, _, _, _)
InvPrimaryIndexFrom(src, headerSizeBytes, i, acc) ==
    IF i >= headerSizeBytes THEN acc
    ELSE InvPrimaryIndexFrom(src, headerSizeBytes, i + 1,
             acc + Shl(BufAt(src, i), Shl(headerSizeBytes - 1, 3) - 8 * i))

InvPrimaryIndex(src, headerSizeBytes) ==
    InvPrimaryIndexFrom(src, headerSizeBytes, 1,
                        Shl(BufAt(src, 0) % 64, Shl(headerSizeBytes - 1, 3)))

\* The guards of the BWT inverse the codec calls on src[srcIdx:], taken from
\* BWT::inverse and inverseMergeTPSI: count == 0 and count == 1 return before
\* the primary index is looked at; then a primary index outside [0, count]
\* makes it fail.  (The Go codec's uint primary index is never negative.)
EngineInverseOk(count, pIdx) ==
    IF count < 2 THEN TRUE
    ELSE ~(pIdx < 0 \/ pIdx > count)

\* What the BWT inverse returns on the view src[srcIdx:] with the primary index
\* pIdx: the original block when the view is exactly the permuted block and
\* pIdx the index the forward reported (a one-byte block is its own BWT),
\* other bytes otherwise.
EngineInverseOut(block, src, srcIdx, count, pIdx) ==
    IF ~EngineInverseOk(count, pIdx) THEN "none"
    ELSE IF /\ block.fromForward
            /\ srcIdx = src.off
            /\ Len(src.lead) <= srcIdx
            /\ count = block.n
            /\ (count < 2 \/ pIdx = block.primaryIndex)
         THEN "x"
         ELSE "other"

\* BWTBlockCodec.Inverse (lines 85-124) on a non-empty src.
CodecInverse(block, src) ==
    LET blockSize == src.len
        blockMode == BufAt(src, 0)
        hs == InvHeaderSize(blockMode)
    IN IF blockSize < hs
       THEN [err |-> TRUE, headerSizeBytes |-> hs, primaryIndex |-> 0,
             srcIdx |-> 0, count |-> 0, out |-> "none"]
       ELSE LET p == InvPrimaryIndex(src, hs)
                count == blockSize - hs
            IN [err |-> ~EngineInverseOk(count, p),
                headerSizeBytes |-> hs,
                primaryIndex |-> p,
                srcIdx |-> hs,
                count |-> count,
                out |-> EngineInverseOut(block, src, hs, count, p)]


\* BWT::MAX_BLOCK_SIZE, 1 GB
MAX_BLOCK_SIZE == Shl(1, 30)

\* Block lengths and primary indexes around every change of header size.
CodecEdges ==
    {0, 1, 2, 3, 63, 64, 65, 16383, 16384, 4194303, 4194304,
     MAX_BLOCK_SIZE - 1, MAX_BLOCK_SIZE}

CodecBlocks ==
    {[fromForward |-> TRUE, n |-> n, primaryIndex |-> q] :
        <<n, q>> \in {e \in CodecEdges \X (CodecEdges \cup {e - 1 : e \in CodecEdges \ {0}}) :
                        e[2] <= e[1]}}

\* Buffers a decoder may be handed that no Forward produced: one or two chosen
\* first bytes, then RawBody further bytes.
RawBytes == {0, 5, 63, 64, 69, 128, 192, 255}

RawBody == {0, 1, 2, 3, 70}

RawBuffers ==
    {[len |-> Len(l) + b, lead |-> l, off |-> Len(l)] :
        <<l, b>> \in ({<<x>> : x \in RawBytes} \cup (RawBytes \X RawBytes)) \X RawBody}

NoBuf == [len |-> 0, lead |-> <<>>, off |-> 0]

NoBlock == [fromForward |-> FALSE, n |-> 0, primaryIndex |-> 0]

NoFwd == [dst |-> NoBuf, iIdx |-> 0, oIdx |-> 0, headerSizeBytes |-> 0]

NoInv == [err |-> FALSE, headerSizeBytes |-> 0, primaryIndex |-> 0,
          srcIdx |-> 0, count |-> 0, out |-> "none"]

CodecIdle ==
    /\ cPhase = "idle"
    /\ cBlock = NoBlock
    /\ cDst = NoBuf
    /\ cFwd = NoFwd
    /\ cInv = NoInv

CodecInit ==
    /\ cPhase = "start"
    /\ cBlock = NoBlock
    /\ cDst = NoBuf
    /\ cFwd = NoFwd
    /\ cInv = NoInv

\* The caller runs the BWT on a block and Forward frames it.
CodecForwardStep ==
    /\ cPhase = "start"
    /\ \E b \in CodecBlocks :
          /\ cBlock' = b
          /\ cFwd' = CodecForward(b.n, b.primaryIndex)
          /\ cDst' = CodecForward(b.n, b.primaryIndex).dst
    /\ cPhase' = "encoded"
    /\ UNCHANGED <<cInv, NotCodec>>

\* The caller hands Inverse a buffer that did not come from Forward.
CodecReceive ==
    /\ cPhase = "start"
    /\ \E buf \in RawBuffers : cDst' = buf
    /\ cPhase' = "encoded"
    /\ UNCHANGED <<cBlock, cFwd, cInv, NotCodec>>

CodecInverseStep ==
    /\ cPhase = "encoded"
    /\ cInv' = CodecInverse(cBlock, cDst)
    /\ cPhase' = "decoded"
    /\ UNCHANGED <<cBlock, cDst, cFwd, NotCodec>>

CodecNext == CodecForwardStep \/ CodecReceive \/ CodecInverseStep

\* Only the codec runs.
CodecAlone == CodecInit /\ BWTIdle /\ EXEIdle /\ ROLZ1Idle /\ ROLZ2Idle /\ WrapIdle /\ ValidateIdle /\ AliasIdle

SpecCodec == CodecAlone /\ [][CodecNext]_vars


-----------------------------------------------------------------------------
(*                  Claims on the BWTBlockCodec                            *)

\* The primary index read back from the header bytes Forward wrote, taking
\* byte 0's low 6 bits as the most significant bits and the bytes after it
\* big-endian.
RECURSIVE BigEndianFrom(_, _, _, _)
BigEndianFrom(buf, hs, i, acc) ==
    IF i >= hs THEN acc ELSE BigEndianFrom(buf, hs, i + 1, acc * 256 + BufAt(buf, i))

HeaderValue(buf, hs) == BigEndianFrom(buf, hs, 1, BufAt(buf, 0) % 64)

\* C1: BWTBlockCodec round trip.  After Inverse ran on what Forward produced,
\* the header size it decoded is the one written, the primary index it set is
\* the one the BWT forward reported, the BWT inverse was handed exactly the n
\* bytes after the header, and the block came back.
C1_RoundTrip ==
    (cPhase = "decoded" /\ cBlock.fromForward) =>
        /\ ~cInv.err
        /\ cInv.headerSizeBytes = cFwd.headerSizeBytes
        /\ cInv.primaryIndex = cBlock.primaryIndex
        /\ cInv.srcIdx = cFwd.headerSizeBytes
        /\ cInv.count = cBlock.n
        /\ cInv.out = "x"

\* C8: header size and layout for every primary index Forward writes.
C8_HeaderLayout ==
    (cPhase = "encoded" /\ cBlock.fromForward) =>
        LET q == cBlock.primaryIndex
            hs == cFwd.headerSizeBytes
        IN /\ (hs = 1) <=> (q < Shl(1, 6))
           /\ (hs = 2) <=> (Shl(1, 6) <= q /\ q < Shl(1, 14))
           /\ (hs = 3) <=> (Shl(1, 14) <= q /\ q < Shl(1, 22))
           /\ (hs = 4) <=> (q >= Shl(1, 22))
           /\ Shr(BufAt(cDst, 0), 6) = hs - 1
           /\ BufAt(cDst, 0) % 64 = Shr(q, 8 * (hs - 1))
           /\ HeaderValue(cDst, hs) = q

\* C9: Forward produces at most MaxEncodedLen(n) bytes: the header has at most
\* 4 bytes and the size field (pIndexSizeBits+1)>>3 fits in 2 bits.
C9_EncodedSizeBound ==
    (cPhase = "encoded" /\ cBlock.fromForward) =>
        /\ cFwd.oIdx <= MaxEncodedLen(cBlock.n)
        /\ cFwd.headerSizeBytes <= 4
        /\ Shr(PIndexSizeBits(cBlock.primaryIndex) + 1, 3) <= 3

\* C10: Inverse returns an error and no output when the header size stored in
\* bits 7-6 of byte 0 exceeds the input length, or the primary index decoded
\* from the header is outside [0, n], n the input length minus the header size.
C10_InverseRejects ==
    cPhase = "decoded" =>
        LET hs == 1 + Shr(BufAt(cDst, 0), 6)
        IN (\/ hs > cDst.len
            \/ (hs <= cDst.len /\ HeaderValue(cDst, hs) > cDst.len - hs))
           => (cInv.err /\ cInv.out = "none")

-----------------------------------------------------------------------------
(*                          BWT engine (C++)                               *)
(*                                                                         *)
(* Arrays are functions on 0..len-1.  BWT.hpp is not part of the sources:  *)
(* its thresholds are scaled so that blocks of a few dozen bytes reach all *)
(* three inverse strategies, and bytes range over a scaled alphabet so     *)
(* that the bigram tables of biPSIv2 have AlphabetSize^2 entries; a bigram *)
(* (c << 8) | d of the code is the key c * AlphabetSize + d.               *)

\* Number of byte values of the blocks.
AlphabetSize == 3

\* Blocks drawn per length.
BWT_SEEDS == 3

\* BWT::BLOCK_SIZE_THRESHOLD1 (256 in BWT.hpp), scaled
BLOCK_SIZE_THRESHOLD1 == 8

\* BWT::BLOCK_SIZE_THRESHOLD2 (8 MB in BWT.hpp), scaled
BLOCK_SIZE_THRESHOLD2 == 16

\* BWT::MASK_FASTBITS ((1 << 17) - 1 in BWT.hpp), scaled
MASK_FASTBITS == 7

\* count >> 3, without the chunk of the remainder
MergeCkSizeFloor(count) == Shr(count, 3)

\* ckSize of the eight chases of inverseMergeTPSI
MergeCkSize(count) == IF count % 8 = 0 THEN Shr(count, 3) ELSE Shr(count, 3) + 1

\* ckSize of inverseBiPSIv2 and of computeBWT
BiCkSize(count, chunks) ==
    LET st == count \div chunks
    IN IF chunks * st = count THEN st ELSE st + 1

BlockByte(len, seed, i) ==
    (((i + 1) * (i + 1) * (seed + 2) + seed * i + len) % 7) % AlphabetSize

\* Lengths below BLOCK_SIZE_THRESHOLD1 (single chase), up to
\* BLOCK_SIZE_THRESHOLD2 (eight chases: lengths that have eight chunks, as
\* every length from 50 on has) and above it (biPSIv2).
BWTLengths == {2, 3, 5, 7, 8, 15, 16, 17, 18, 24, 32}

BWTBlocks ==
    {[i \in 0..(len - 1) |-> BlockByte(len, seed, i)] :
        <<len, seed>> \in BWTLengths \X (0..(BWT_SEEDS - 1))}

BlockLen(x) == Cardinality(DOMAIN x)

\* computeBWT: suffix i of x sorts before suffix j (a suffix that is a prefix
\* of another sorts first).
RECURSIVE SuffixLess(_, _, _, _)
SuffixLess(x, n, i, j) ==
    IF i = j THEN FALSE
    ELSE IF i >= n THEN TRUE
    ELSE IF j >= n THEN FALSE
    ELSE IF x[i] # x[j] THEN x[i] < x[j]
    ELSE SuffixLess(x, n, i + 1, j + 1)

\* computeBWT: the permuted bytes (the last byte, then the byte before each
\* suffix in sorted order, suffix 0 left out) and, per chunk c, the rank of
\* suffix c * ckSize plus one.
ComputeBWT(x, n, chunks) ==
    LET rank == [i \in 0..(n - 1) |-> Cardinality({j \in 0..(n - 1) : SuffixLess(x, n, j, i)})]
        sa == [r \in 0..(n - 1) |-> CHOOSE i \in 0..(n - 1) : rank[i] = r]
        step == BiCkSize(n, chunks)
    IN [src |-> [k \in 0..(n - 1) |->
                    IF k = 0 THEN x[n - 1]
                    ELSE x[sa[IF k - 1 < rank[0] THEN k - 1 ELSE k] - 1]],
        primaryIndexes |-> [c \in 0..7 |-> IF c * step < n THEN rank[c * step] + 1 ELSE 0]]

\* BWT::forward
BWTForward(x, n, chunks) ==
    IF n = 0 THEN [src |-> <<>>, primaryIndexes |-> [c \in 0..7 |-> 0]]
    ELSE IF n < 2 THEN [src |-> x, primaryIndexes |-> [c \in 0..7 |-> 0]]
    ELSE ComputeBWT(x, n, chunks)

\* dst[i] = b
DstWrite(dst, i, b) == [k \in (DOMAIN dst) \cup {i} |-> IF k = i THEN b ELSE dst[k]]

\* ptr >> 8 of a uint that holds the bits of the int e
UShr8(e) == IF e < 0 THEN Shl(1, 24) + (e \div 256) ELSE e \div 256

\* ptr >> 8 of an int
SShr8(e) == e \div 256

\* inverseMergeTPSI: the bucket starts (histogram, then running sums)
MergeBuckets(src, count) ==
    [v \in 0..(AlphabetSize - 1) |-> Cardinality({i \in 0..(count - 1) : src[i] < v})]

\* inverseMergeTPSI: the two loops that fill _buffer with packed index + value
RECURSIVE MergeLinks(_, _, _, _, _, _)
MergeLinks(src, count, pIdx, i, buckets, buffer) ==
    IF i >= count THEN buffer
    ELSE LET val == src[i]
             e == IF i < pIdx THEN (i - 1) * 256 + val ELSE i * 256 + val
         IN MergeLinks(src, count, pIdx, i + 1,
                       [buckets EXCEPT ![val] = @ + 1],
                       [buffer EXCEPT ![buckets[val]] = e])

\* inverseMergeTPSI: the single chase (count < BLOCK_SIZE_THRESHOLD1);
\* st = [dst, reads], reads the indexes t of the _buffer[t] it read
RECURSIVE SingleChase(_, _, _, _, _)
SingleChase(buffer, count, i, t, st) ==
    IF i >= count THEN [dst |-> st.dst, fault |-> FALSE, reads |-> st.reads]
    ELSE IF t \notin DOMAIN buffer
    THEN [dst |-> st.dst, fault |-> TRUE, reads |-> st.reads \cup {t}]
    ELSE LET ptr == buffer[t]
         IN SingleChase(buffer, count, i + 1, UShr8(ptr),
                        [dst |-> DstWrite(st.dst, i, ptr % 256),
                         reads |-> st.reads \cup {t}])

\* inverseMergeTPSI: one pass of the loop body over chases j..width-1
RECURSIVE ChaseRow(_, _, _, _, _, _)
ChaseRow(buffer, ckSize, n, j, width, st) ==
    IF j >= width \/ st.fault THEN st
    ELSE IF st.t[j] \notin DOMAIN buffer
    THEN [st EXCEPT !.fault = TRUE, !.reads = @ \cup {st.t[j]}]
    ELSE LET ptr == buffer[st.t[j]]
         IN ChaseRow(buffer, ckSize, n, j + 1, width,
                     [t |-> [st.t EXCEPT ![j] = SShr8(ptr)],
                      dst |-> DstWrite(st.dst, n + ckSize * j, ptr % 256),
                      fault |-> FALSE, ptr |-> ptr, n |-> n + 1,
                      reads |-> st.reads \cup {st.t[j]}])

\* inverseMergeTPSI: while (true) { ... if (ptr7 < 0) break; }.  A chase that
\* has run count rows without meeting the sentinel is reported as a fault.
RECURSIVE EightChases(_, _, _, _, _)
EightChases(buffer, count, ckSize, n, st) ==
    LET row == ChaseRow(buffer, ckSize, n, 0, 8, st)
    IN IF row.fault THEN row
       ELSE IF row.ptr < 0 THEN row
       ELSE IF n + 1 >= count THEN [row EXCEPT !.fault = TRUE]
       ELSE EightChases(buffer, count, ckSize, n + 1, row)

\* inverseMergeTPSI: while (n < ckSize) over chases 0..6
RECURSIVE DrainChases(_, _, _, _)
DrainChases(buffer, ckSize, n, st) ==
    IF n >= ckSize \/ st.fault THEN st
    ELSE DrainChases(buffer, ckSize, n + 1, ChaseRow(buffer, ckSize, n, 0, 7, st))

\* BWT::inverseMergeTPSI
InverseMergeTPSI(src, primaryIndexes, count) ==
    LET pIdx == primaryIndexes[0]
        buffer == MergeLinks(src, count, pIdx, 0, MergeBuckets(src, count),
                             [k \in 0..(Max(count, 64) - 1) |-> 0])
    IN IF pIdx < 0 \/ pIdx > count
       THEN [ok |-> FALSE, dst |-> <<>>, fault |-> FALSE, chase |-> NoChase]
       ELSE IF count < BLOCK_SIZE_THRESHOLD1
            THEN LET r == SingleChase(buffer, count, 0, pIdx - 1,
                                      [dst |-> <<>>, reads |-> {}])
                 IN [ok |-> ~r.fault, dst |-> r.dst, fault |-> r.fault,
                     chase |-> [NoChase EXCEPT !.reads = r.reads]]
            ELSE LET ckSize == MergeCkSize(count)
                     st0 == [t |-> [j \in 0..7 |-> primaryIndexes[j] - 1], dst |-> <<>>,
                             fault |-> FALSE, ptr |-> 0, n |-> 0, reads |-> {}]
                     st1 == EightChases(buffer, count, ckSize, 0, st0)
                     st2 == DrainChases(buffer, ckSize, st1.n, st1)
                 IN [ok |-> ~st2.fault, dst |-> st2.dst, fault |-> st2.fault,
                     chase |-> [reads |-> st2.reads, eight |-> st1.n, n |-> st2.n]]

\* inverseBiPSIv2: freqs[c] after the first loop (1 + the number of smaller bytes)
BiFreqs(src, count) ==
    [c \in 0..(AlphabetSize - 1) |-> 1 + Cardinality({i \in 0..(count - 1) : src[i] < c})]

\* inverseBiPSIv2: buckets after the first loop, the bigram counts on both
\* sides of the primary index
BiPairCounts(src, count, pIdx) ==
    [k \in 0..(AlphabetSize * AlphabetSize - 1) |->
        LET c == k \div AlphabetSize
            d == k % AlphabetSize
            f == BiFreqs(src, count)[c]
            sum == f + Cardinality({i \in 0..(count - 1) : src[i] = c})
            hi == Min(sum, pIdx)
            lo == Max(f - 1, pIdx)
        IN Cardinality({i \in f..(hi - 1) : src[i] = d})
           + Cardinality({i \in lo..(sum - 2) : src[i] = d})]

\* inverseBiPSIv2: for (; v <= ((sum - 1) >> shift); v++) fastBits[v] = key
FillFastBits(fastBits, v, top, key) ==
    [w \in DOMAIN fastBits |-> IF w >= v /\ w <= top THEN key ELSE fastBits[w]]

\* inverseBiPSIv2: the loop over (c, d) that turns buckets into running sums
\* and fills fastBits; k = c * AlphabetSize + d counts its iterations.
RECURSIVE BiCumulate(_, _, _, _)
BiCumulate(k, lastc, shift, st) ==
    IF k >= AlphabetSize * AlphabetSize THEN st
    ELSE LET c == k \div AlphabetSize
             d == k % AlphabetSize
             s == IF d = 0 /\ c = lastc THEN st.sum + 1 ELSE st.sum
             key == d * AlphabetSize + c
             sum == s + st.buckets[key]
             buckets == [st.buckets EXCEPT ![key] = s]
             top == Shr(sum - 1, shift)
         IN IF s = sum
            THEN BiCumulate(k + 1, lastc, shift, [st EXCEPT !.sum = s, !.buckets = buckets])
            ELSE BiCumulate(k + 1, lastc, shift,
                            [sum |-> sum, v |-> Max(st.v, top + 1), buckets |-> buckets,
                             fastBits |-> FillFastBits(st.fastBits, st.v, top,
                                                       c * AlphabetSize + d)])

\* inverseBiPSIv2: the two loops (n < pIdx, n < count) that fill _buffer
RECURSIVE BiLinks(_, _, _, _, _)
BiLinks(src, count, pIdx, n, st) ==
    IF n >= count THEN st
    ELSE LET c == src[n]
             p == st.freqs[c]
             val == IF n < pIdx THEN n ELSE n + 1
             key == IF p < pIdx THEN c * AlphabetSize + src[p]
                    ELSE c * AlphabetSize + src[p - 1]
         IN IF p = pIdx
            THEN BiLinks(src, count, pIdx, n + 1, [st EXCEPT !.freqs[c] = @ + 1])
            ELSE BiLinks(src, count, pIdx, n + 1,
                         [freqs |-> [st.freqs EXCEPT ![c] = @ + 1],
                          buckets |-> [st.buckets EXCEPT ![key] = @ + 1],
                          data |-> [st.data EXCEPT ![st.buckets[key]] = val]])

\* while ((count >> shift) > MASK_FASTBITS) shift++
RECURSIVE FastShift(_, _)
FastShift(count, shift) ==
    IF Shr(count, shift) > MASK_FASTBITS THEN FastShift(count, shift + 1) ELSE shift

\* inverseBiPSIv2 up to the creation of the tasks: shift, the transposed
\* buckets, fastBits, _buffer and lastc.
BiPrepare(src, count, pIdx) ==
    LET lastc == src[0]
        shift == FastShift(count, 0)
        cum == BiCumulate(0, lastc, shift,
                          [sum |-> 1, v |-> 0, buckets |-> BiPairCounts(src, count, pIdx),
                           fastBits |-> [w \in 0..MASK_FASTBITS |-> 0]])
        lk == BiLinks(src, count, pIdx, 0,
                      [freqs |-> BiFreqs(src, count), buckets |-> cum.buckets,
                       data |-> [k \in 0..(Max(count + 1, 64) - 1) |-> 0]])
    IN [shift |-> shift,
        buckets |-> [k \in 0..(AlphabetSize * AlphabetSize - 1) |->
                        lk.buckets[(k % AlphabetSize) * AlphabetSize + k \div AlphabetSize]],
        fastBits |-> cum.fastBits,
        data |-> lk.data,
        lastc |-> lastc]

\* InverseBiPSIv2Task::run: while (_buckets[s] <= p) s++
RECURSIVE BiScan(_, _, _)
BiScan(buckets, s, p) ==
    IF s \in DOMAIN buckets /\ buckets[s] <= p THEN BiScan(buckets, s + 1, p) ELSE s

\* InverseBiPSIv2Task::run: the bigram s of pointer p
BiSymbol(tb, p) == BiScan(tb.buckets, tb.fastBits[Shr(p, tb.shift)], p)

\* _dst[i - 1] = byte(s >> 8); _dst[i] = byte(s)
DstWritePair(dst, i, s) ==
    DstWrite(DstWrite(dst, i - 1, s \div AlphabetSize), i, s % AlphabetSize)

\* InverseBiPSIv2Task::run: the inner loop of the one-chunk loop
RECURSIVE BiChase(_, _, _, _, _)
BiChase(tb, i, end, p, dst) ==
    IF i > end THEN dst
    ELSE BiChase(tb, i + 2, end, tb.data[p], DstWritePair(dst, i, BiSymbol(tb, p)))

\* InverseBiPSIv2Task::run: the inner loop of the four-chunk loop
RECURSIVE BiChase4(_, _, _, _, _, _)
BiChase4(tb, ckSize, i, end, p, dst) ==
    IF i > end THEN dst
    ELSE LET d0 == DstWritePair(dst, i, BiSymbol(tb, p[0]))
             d1 == DstWritePair(d0, ckSize + i, BiSymbol(tb, p[1]))
             d2 == DstWritePair(d1, 2 * ckSize + i, BiSymbol(tb, p[2]))
             d3 == DstWritePair(d2, 3 * ckSize + i, BiSymbol(tb, p[3]))
         IN BiChase4(tb, ckSize, i + 2, end, [k \in 0..3 |-> tb.data[p[k]]], d3)

\* Global::computeJobsPerTask: jobs spread over tasks, the remainder one each
\* to the first tasks
ComputeJobsPerTask(jobs, tasks) ==
    [j \in 0..(tasks - 1) |-> jobs \div tasks + (IF j < jobs % tasks THEN 1 ELSE 0)]

\* inverseBiPSIv2: c of the loop that creates the tasks, when task j is created
RECURSIVE FirstChunk(_, _)
FirstChunk(jobsPerTask, j) ==
    IF j = 0 THEN 0 ELSE jobsPerTask[j - 1] + FirstChunk(jobsPerTask, j - 1)

\* The constructor of InverseBiPSIv2Task and the test before the four-chunk loop
NewTask(total, start, ckSize, firstChunk, lastChunk) ==
    [start |-> start, c |-> firstChunk, lastChunk |-> lastChunk,
     four |-> (start + 4 * ckSize < total)]

\* inverseBiPSIv2: the tasks it creates
BiTasks(count, chunks, jobs) ==
    LET ckSize == BiCkSize(count, chunks)
        nbTasks == IF jobs < chunks THEN jobs ELSE chunks
        jobsPerTask == ComputeJobsPerTask(chunks, nbTasks)
        first == [j \in 0..(nbTasks - 1) |-> FirstChunk(jobsPerTask, j)]
    IN IF nbTasks = 1 THEN [j \in {0} |-> NewTask(count, 0, ckSize, 0, chunks)]
       ELSE [j \in 0..(nbTasks - 1) |->
                NewTask(count, first[j] * ckSize, ckSize, first[j], first[j] + jobsPerTask[j])]

\* InverseBiPSIv2Task::run: one iteration of the four-chunk loop while it
\* runs, of the one-chunk loop after it.
TaskStep(tb, primaryIndexes, total, ckSize, task, dst) ==
    IF task.four /\ task.c + 3 < task.lastChunk
    THEN LET end == task.start + ckSize
         IN [task |-> [task EXCEPT !.start = end + 3 * ckSize, !.c = @ + 4],
             dst |-> BiChase4(tb, ckSize, task.start + 1, end,
                              [k \in 0..3 |-> primaryIndexes[task.c + k]], dst)]
    ELSE LET end == Min(task.start + ckSize, total - 1)
         IN [task |-> [task EXCEPT !.start = end, !.c = @ + 1],
             dst |-> BiChase(tb, task.start + 1, end, primaryIndexes[task.c], dst)]

TaskDone(task) == task.c >= task.lastChunk

\* getBWTChunks: the chunk counts a block of this length may be cut into.
\* The eight chases of inverseMergeTPSI read eight primary indexes.
BWTChunkCounts(count) ==
    IF count < BLOCK_SIZE_THRESHOLD1 THEN {1}
    ELSE IF count <= BLOCK_SIZE_THRESHOLD2 THEN {8}
    ELSE {1, 2, 4, 8}

BWTJobs == {1, 2, 4, 8}

\* BWT::BWT(jobs) and the block the caller holds
BWTInit ==
    /\ bPhase = "start"
    /\ bBlock \in {[x |-> x, count |-> BlockLen(x), chunks |-> ch, jobs |-> jb] :
                     <<x, ch, jb>> \in {t \in BWTBlocks \X {1, 2, 4, 8} \X BWTJobs :
                                          t[2] \in BWTChunkCounts(BlockLen(t[1]))}}
    /\ bFwd = [src |-> <<>>, primaryIndexes |-> [c \in 0..7 |-> 0]]
    /\ bTables = NoTables
    /\ bTasks = <<>>
    /\ bDst = <<>>
    /\ bRet = NoRet

\* BWT::forward
BWTForwardStep ==
    /\ bPhase = "start"
    /\ bFwd' = BWTForward(bBlock.x, bBlock.count, bBlock.chunks)
    /\ bPhase' = "forward"
    /\ UNCHANGED <<bBlock, bTables, bTasks, bDst, bRet, NotBWT>>

\* BWT::inverse when it selects inverseMergeTPSI (or count < 2)
BWTInverseMerge ==
    /\ bPhase = "forward"
    /\ bBlock.count <= BLOCK_SIZE_THRESHOLD2
    /\ LET count == bBlock.count
           r == InverseMergeTPSI(bFwd.src, bFwd.primaryIndexes, count)
       IN IF count < 2
          THEN /\ bDst' = (IF count = 1 THEN DstWrite(<<>>, 0, bFwd.src[0]) ELSE <<>>)
               /\ bRet' = [called |-> TRUE, ok |-> TRUE, inIdx |-> count, outIdx |-> count,
                           fault |-> FALSE, chase |-> NoChase]
          ELSE /\ bDst' = r.dst
               /\ bRet' = [called |-> TRUE, ok |-> r.ok,
                           inIdx |-> IF r.ok THEN count ELSE 0,
                           outIdx |-> IF r.ok THEN count ELSE 0,
                           fault |-> r.fault, chase |-> r.chase]
    /\ bPhase' = "done"
    /\ UNCHANGED <<bBlock, bFwd, bTables, bTasks, NotBWT>>

\* BWT::inverse when it selects inverseBiPSIv2: everything up to the start of
\* the tasks
BWTInverseBiPSIv2 ==
    /\ bPhase = "forward"
    /\ bBlock.count > BLOCK_SIZE_THRESHOLD2
    /\ LET pIdx == bFwd.primaryIndexes[0]
       IN IF pIdx < 0 \/ pIdx > bBlock.count
          THEN /\ bRet' = [called |-> TRUE, ok |-> FALSE, inIdx |-> 0, outIdx |-> 0,
                           fault |-> FALSE, chase |-> NoChase]
               /\ bPhase' = "done"
               /\ UNCHANGED <<bTables, bTasks>>
          ELSE /\ bTables' = BiPrepare(bFwd.src, bBlock.count, pIdx)
               /\ bTasks' = BiTasks(bBlock.count, bBlock.chunks, bBlock.jobs)
               /\ bPhase' = "tasks"
               /\ UNCHANGED bRet
    /\ UNCHANGED <<bBlock, bFwd, bDst, NotBWT>>

\* InverseBiPSIv2Task::run of one task, one iteration of its chunk loops.  The
\* tasks read the shared tables only, so what a cell of dst ends up holding
\* is decided by which task writes it last, and every order of two tasks'
\* writes to a cell is reached by running whole iterations in either order.
BWTTaskRun ==
    /\ bPhase = "tasks"
    /\ \E j \in DOMAIN bTasks :
          /\ ~TaskDone(bTasks[j])
          /\ LET r == TaskStep(bTables, bFwd.primaryIndexes, bBlock.count,
                               BiCkSize(bBlock.count, bBlock.chunks), bTasks[j], bDst)
             IN /\ bTasks' = [bTasks EXCEPT ![j] = r.task]
                /\ bDst' = r.dst
    /\ UNCHANGED <<bPhase, bBlock, bFwd, bTables, bRet, NotBWT>>

\* "Wait for completion of all concurrent tasks", the variant that waits
\* for the first future only
JoinedFirst(tasks) == TaskDone(tasks[0])

\* "Wait for completion of all concurrent tasks": futures[j].get() has
\* returned for every j (with one task, task.run() has returned)
Joined(tasks) == \A j \in DOMAIN tasks : TaskDone(tasks[j])

\* inverseBiPSIv2 after task.run() returned or every future was joined: the
\* last byte, the tables freed, the indexes advanced
BWTJoin ==
    /\ bPhase = "tasks"
    /\ Joined(bTasks)
    /\ bDst' = DstWrite(bDst, bBlock.count - 1, bTables.lastc)
    /\ bTables' = NoTables
    /\ bRet' = [called |-> TRUE, ok |-> TRUE, inIdx |-> bBlock.count,
                outIdx |-> bBlock.count, fault |-> FALSE, chase |-> NoChase]
    /\ bPhase' = "done"
    /\ UNCHANGED <<bBlock, bFwd, bTasks, NotBWT>>

BWTNext ==
    BWTForwardStep \/ BWTInverseMerge \/ BWTInverseBiPSIv2 \/ BWTTaskRun \/ BWTJoin

\* Only the BWT engine runs.
BWTAlone == BWTInit /\ CodecIdle /\ EXEIdle /\ ROLZ1Idle /\ ROLZ2Idle /\ WrapIdle /\ ValidateIdle /\ AliasIdle

SpecBWT == BWTAlone /\ [][BWTNext]_vars

-----------------------------------------------------------------------------
(*                     Claims on the BWT engine                            *)

\* C2: BWT engine round trip.  When inverse has returned on what forward
\* produced for a block x of count >= 2 bytes, it returned true, the cells of
\* dst it wrote are exactly 0..count-1 and hold x, and both indexes moved by
\* count, whichever strategy and chunk count were used.
C2_RoundTrip ==
    (bPhase = "done" /\ bBlock.count >= 2) =>
        /\ bRet.ok
        /\ ~bRet.fault
        /\ bDst = bBlock.x
        /\ bRet.inIdx = bBlock.count
        /\ bRet.outIdx = bBlock.count

\* inverseBiPSIv2 with _jobs = 1: task.run() of the one task over all chunks
RECURSIVE RunTask(_, _, _, _, _, _)
RunTask(tb, primaryIndexes, total, ckSize, task, dst) ==
    IF TaskDone(task) THEN dst
    ELSE LET r == TaskStep(tb, primaryIndexes, total, ckSize, task, dst)
         IN RunTask(tb, primaryIndexes, total, ckSize, r.task, r.dst)

OneJobDst(src, primaryIndexes, count, chunks) ==
    LET tb == BiPrepare(src, count, primaryIndexes[0])
        ckSize == BiCkSize(count, chunks)
    IN DstWrite(RunTask(tb, primaryIndexes, count, ckSize,
                        NewTask(count, 0, ckSize, 0, chunks), <<>>),
                count - 1, tb.lastc)

\* C7: the BWT inverse does not depend on the number of jobs.  When
\* inverseBiPSIv2 has returned, with any number of jobs and after any
\* interleaving of its tasks, the cells of dst it wrote and the bytes in them
\* are those it writes with one job on the same bytes and primary indexes.
C7_JobsIndependent ==
    (bPhase = "done" /\ bBlock.count > BLOCK_SIZE_THRESHOLD2 /\ bRet.ok) =>
        bDst = OneJobDst(bFwd.src, bFwd.primaryIndexes, bBlock.count, bBlock.chunks)

\* BWT::setPrimaryIndex between forward and inverse: the caller stores the
\* primary index of chunk n as it read it from the bitstream, here a value
\* above count.  (A negative value is refused and leaves the index as it was.)
BadPrimaryIndexes(count) == {count + 1, count + 2}

\* primary indexes the caller sets wrongly in one block
MaxBadIndexes == 1

BWTSetPrimaryIndex ==
    /\ bPhase = "forward"
    /\ Cardinality({c \in 0..7 : bFwd.primaryIndexes[c] > bBlock.count}) < MaxBadIndexes
    /\ \E n \in 0..7, primaryIndex \in BadPrimaryIndexes(bBlock.count) \cup {-1} :
          bFwd' = IF primaryIndex < 0 \/ n < 0 \/ n >= 8 THEN bFwd
                  ELSE [bFwd EXCEPT !.primaryIndexes[n] = primaryIndex]
    /\ UNCHANGED <<bPhase, bBlock, bTables, bTasks, bDst, bRet, NotBWT>>

BWTIdxNext == BWTNext \/ BWTSetPrimaryIndex

\* The BWT engine with primary indexes the caller may have set.
SpecBWTIdx == BWTAlone /\ [][BWTIdxNext]_vars

\* the chunk primary indexes inverse uses on a block of count bytes
UsedPrimaryIndexes(count, chunks) ==
    IF count < BLOCK_SIZE_THRESHOLD1 THEN {0}
    ELSE IF count <= BLOCK_SIZE_THRESHOLD2 THEN 0..7
    ELSE 0..(chunks - 1)

BadUsedIndex ==
    \E c \in UsedPrimaryIndexes(bBlock.count, bBlock.chunks) :
        bFwd.primaryIndexes[c] < 0 \/ bFwd.primaryIndexes[c] > bBlock.count

\* C11: inverse rejects bad primary indexes.  When inverse has returned on a
\* block of which one of the primary indexes it uses is negative or above
\* count, it returned false (it did not run into undefined behaviour) and
\* moved neither index.
C11_BadIndexRejected ==
    (bPhase = "done" /\ bBlock.count >= 2 /\ BadUsedIndex) =>
        /\ ~bRet.ok
        /\ ~bRet.fault
        /\ bRet.inIdx = 0
        /\ bRet.outIdx = 0


\* the number of tasks of inverseBiPSIv2
NbTasks == Cardinality(DOMAIN bTasks)

\* every task has run all its chunks: run() has made its last write to dst
AllTasksFinished == \A j \in DOMAIN bTasks : bTasks[j].c >= bTasks[j].lastChunk

\* C19: join before completion.  In every execution of inverseBiPSIv2 with
\* more than one task, once the final byte dst[count - 1] is written, the
\* tables are freed and the indexes are advanced (the call has returned),
\* every task has finished all its chunks, hence all its writes to dst; and
\* while a task is unfinished none of these has happened.
C19_JoinBeforeCompletion ==
    (bBlock.count > BLOCK_SIZE_THRESHOLD2 /\ NbTasks > 1) =>
        /\ bPhase = "done" => AllTasksFinished
        /\ ~AllTasksFinished =>
               /\ ~bRet.called
               /\ bTables # NoTables
               /\ bRet.inIdx = 0
               /\ bRet.outIdx = 0

\* inverseBiPSIv2 returned after it joined several tasks
C19_Witness ==
    /\ bPhase = "done"
    /\ NbTasks > 2
    /\ AllTasksFinished
    /\ bRet.called
    /\ bTables = NoTables
    /\ bRet.outIdx = bBlock.count


\* the cells of dst the task j of inverseBiPSIv2 writes when it runs all
\* its chunks
TaskCells(j) ==
    DOMAIN RunTask(bTables, bFwd.primaryIndexes, bBlock.count,
                   BiCkSize(bBlock.count, bBlock.chunks),
                   BiTasks(bBlock.count, bBlock.chunks, bBlock.jobs)[j], <<>>)

\* C20: disjoint worker writes.  In inverseBiPSIv2 with min(jobs, chunks)
\* tasks, the sets of cells of dst two different tasks write are disjoint,
\* for every count and every chunk size, odd or even, in the loop over four
\* chunks and in the loop over one chunk.
C20_DisjointWrites ==
    (bPhase = "tasks" /\ NbTasks > 1) =>
        \A j, k \in DOMAIN bTasks : j # k => TaskCells(j) \cap TaskCells(k) = {}

\* BWT::setPrimaryIndex(0, primaryIndex) between forward and inverse, with
\* a value the range check of inverseMergeTPSI accepts
BWTSetAcceptedIndex ==
    /\ bPhase = "forward"
    /\ bBlock.count >= 2
    /\ bBlock.count <= BLOCK_SIZE_THRESHOLD2
    /\ \E primaryIndex \in 0..bBlock.count :
          bFwd' = [bFwd EXCEPT !.primaryIndexes[0] = primaryIndex]
    /\ UNCHANGED <<bPhase, bBlock, bTables, bTasks, bDst, bRet, NotBWT>>

BWTAcceptedNext == BWTNext \/ BWTSetAcceptedIndex

\* The BWT engine with any primary index 0 that passes the range check.
SpecBWTAccepted == BWTAlone /\ [][BWTAcceptedNext]_vars

\* C27: memory safety of the mergeTPSI chase.  For a count in
\* [2, BLOCK_SIZE_THRESHOLD2] and a primary index the range check accepts
\* (0 <= pIdx <= count), every index t of a read _buffer[t] is in
\* [0, count) and every index written in dst is in [0, count).
C27_ChaseInBounds ==
    (/\ bPhase = "done"
     /\ bBlock.count >= 2
     /\ bBlock.count <= BLOCK_SIZE_THRESHOLD2
     /\ bFwd.primaryIndexes[0] \in 0..bBlock.count) =>
        /\ bRet.chase.reads \subseteq 0..(bBlock.count - 1)
        /\ DOMAIN bDst \subseteq 0..(bBlock.count - 1)

\* inverse returned on a block the eight chases decode
EightChasesRan ==
    /\ bPhase = "done"
    /\ bBlock.count >= BLOCK_SIZE_THRESHOLD1
    /\ bBlock.count <= BLOCK_SIZE_THRESHOLD2

\* C28: termination of the eight-chase loop.  For a count in
\* [BLOCK_SIZE_THRESHOLD1, BLOCK_SIZE_THRESHOLD2] and the primary indexes
\* forward produced, the unconditional loop exits, chase 7 reading the
\* negative entry, after at most ckSize iterations (ckSize the eighth of
\* count, rounded up), and the drain loop then takes n to exactly ckSize.
C28_EightChasesEnd ==
    EightChasesRan =>
        /\ ~bRet.fault
        /\ bRet.chase.eight >= 1
        /\ bRet.chase.eight <= (bBlock.count + 7) \div 8
        /\ bRet.chase.n = (bBlock.count + 7) \div 8

\* the eight chases ended before ckSize iterations and the drain loop ran
C28_Witness ==
    /\ EightChasesRan
    /\ bRet.chase.eight < bRet.chase.n

-----------------------------------------------------------------------------
(*                     EXE filter: X86Codec (C++)                          *)
(*                                                                         *)
(* Byte arrays are sequences, At(s, i) is s[i] of the code.  An int is a    *)
(* number in -2^31 .. 2^31-1; & with a mask of low or of high bits, >> and  *)
(* << are written as %, \div and *.  X86Codec.hpp is not part of the        *)
(* sources.                                                                *)

At(s, i) == s[i + 1]

\* bytes from..to-1 of s
Slice(s, from, to) == SubSeq(s, from + 1, to)

RECURSIVE BitAnd(_, _)
BitAnd(a, b) ==
    IF a = 0 \/ b = 0 THEN 0
    ELSE (a % 2) * (b % 2) + 2 * BitAnd(a \div 2, b \div 2)

RECURSIVE BitOr(_, _)
BitOr(a, b) ==
    IF a = 0 THEN b
    ELSE IF b = 0 THEN a
    ELSE Max(a % 2, b % 2) + 2 * BitOr(a \div 2, b \div 2)

RECURSIVE BitXor(_, _)
BitXor(a, b) ==
    IF a = 0 THEN b
    ELSE IF b = 0 THEN a
    ELSE ((a + b) % 2) + 2 * BitXor(a \div 2, b \div 2)

\* byte k of the int v
IntByte(v, k) == Shr(v, 8 * k) % 256

\* the int whose four bytes are b0 (lowest) .. b3
IntOf(b0, b1, b2, b3) ==
    b0 + 256 * b1 + 65536 * b2 + 16777216 * (IF b3 >= 128 THEN b3 - 256 ELSE b3)

\* LittleEndian::readInt32 / writeInt32
ReadInt32LE(s, i) == IntOf(At(s, i), At(s, i + 1), At(s, i + 2), At(s, i + 3))

Int32LE(v) == <<IntByte(v, 0), IntByte(v, 1), IntByte(v, 2), IntByte(v, 3)>>

\* BigEndian::readInt32 / writeInt32
ReadInt32BE(s, i) == IntOf(At(s, i + 3), At(s, i + 2), At(s, i + 1), At(s, i))

Int32BE(v) == <<IntByte(v, 3), IntByte(v, 2), IntByte(v, 1), IntByte(v, 0)>>

\* X86Codec.hpp
X86_MASK_JUMP == 254

X86_INSTRUCTION_JUMP == 232

X86_INSTRUCTION_JCC == 128

X86_TWO_BYTE_PREFIX == 15

X86_MASK_JCC == 240

X86_ESCAPE == 155

X86 == 64

ARM64 == 32

X86_ADDR_MASK == 16777215

\* one byte of MASK_ADDRESS, 0xF0F0F0F0
MASK_ADDRESS == 240

\* v ^ MASK_ADDRESS
XorMaskAddress(v) ==
    IntOf(BitXor(IntByte(v, 0), MASK_ADDRESS), BitXor(IntByte(v, 1), MASK_ADDRESS),
          BitXor(IntByte(v, 2), MASK_ADDRESS), BitXor(IntByte(v, 3), MASK_ADDRESS))

\* "Worth it ?": the matches forwardX86 and forwardARM ask for
MIN_MATCHES == 16

\* forwardX86: the escape test of a jump/call
X86NotRelative(sgn, offset) ==
    (sgn # 0 /\ sgn # 255) \/ offset = IntOf(0, 0, 0, 255)

\* forwardX86: addr
X86Target(srcIdx, sgn, offset) ==
    srcIdx + (IF sgn = 0 THEN offset ELSE -((-offset) % (X86_ADDR_MASK + 1)))

\* inverseX86 without the sign test on the offset
X86OffsetMasked(addr, dstIdx) == (addr - dstIdx) % (X86_ADDR_MASK + 1)

\* inverseX86: the offset written back
X86Offset(addr, dstIdx) ==
    LET offset == addr - dstIdx
    IN IF offset >= 0 THEN offset ELSE -((-offset) % (X86_ADDR_MASK + 1))

\* forwardX86: the while loop.  st = [srcIdx, dst, matches]
RECURSIVE X86ForwardLoop(_, _, _)
X86ForwardLoop(src, codeEnd, st) ==
    LET \* "Current instruction is a jump/call", srcIdx at its last opcode byte
        Jump(srcIdx, dst) ==
            LET sgn == At(src, srcIdx + 4)
                offset == ReadInt32LE(src, srcIdx + 1)
            IN IF X86NotRelative(sgn, offset)
               THEN X86ForwardLoop(src, codeEnd,
                        [srcIdx |-> srcIdx + 1, matches |-> st.matches,
                         dst |-> dst \o <<X86_ESCAPE, At(src, srcIdx)>>])
               ELSE X86ForwardLoop(src, codeEnd,
                        [srcIdx |-> srcIdx + 5, matches |-> st.matches + 1,
                         dst |-> dst \o <<At(src, srcIdx)>>
                                 \o Int32BE(XorMaskAddress(X86Target(srcIdx, sgn, offset)))])
        Literal(srcIdx, dst) ==
            X86ForwardLoop(src, codeEnd,
                [srcIdx |-> srcIdx + 1, matches |-> st.matches,
                 dst |-> dst \o (IF At(src, srcIdx) = X86_ESCAPE THEN <<X86_ESCAPE>> ELSE <<>>)
                         \o <<At(src, srcIdx)>>])
    IN IF st.srcIdx >= codeEnd THEN st
       ELSE IF At(src, st.srcIdx) = X86_TWO_BYTE_PREFIX
            THEN IF BitAnd(At(src, st.srcIdx + 1), X86_MASK_JCC) # X86_INSTRUCTION_JCC
                 THEN Literal(st.srcIdx + 1, st.dst \o <<At(src, st.srcIdx)>>)
                 ELSE Jump(st.srcIdx + 1, st.dst \o <<At(src, st.srcIdx)>>)
       ELSE IF BitAnd(At(src, st.srcIdx), X86_MASK_JUMP) # X86_INSTRUCTION_JUMP
            THEN Literal(st.srcIdx, st.dst)
       ELSE Jump(st.srcIdx, st.dst)

\* the first 9 bytes of the output: mode, codeStart, dstIdx at the end of the loop
Prologue(mode, codeStart, dstIdx) == <<mode>> \o Int32LE(codeStart) \o Int32LE(dstIdx)

\* X86Codec::forwardX86, the variant that gives the indexes it reached when
\* it declines
ForwardX86Consumed(src, count, codeStart, codeEnd) ==
    LET st == X86ForwardLoop(src, codeEnd,
                  [srcIdx |-> codeStart, matches |-> 0,
                   dst |-> <<X86, 0, 0, 0, 0, 0, 0, 0, 0>> \o Slice(src, 0, codeStart)])
        dstIdx == Len(st.dst)
    IN IF st.matches < MIN_MATCHES
       THEN [ok |-> FALSE, dst |-> <<>>, inIdx |-> st.srcIdx, outIdx |-> dstIdx,
             matches |-> st.matches,
             srcEnd |-> st.srcIdx, fpRun |-> 0]
       ELSE [ok |-> TRUE,
             dst |-> Prologue(X86, codeStart, dstIdx) \o Slice(st.dst, 9, dstIdx)
                     \o Slice(src, st.srcIdx, count),
             inIdx |-> count, outIdx |-> dstIdx + (count - st.srcIdx),
             matches |-> st.matches, srcEnd |-> st.srcIdx, fpRun |-> 0]

\* X86Codec::forwardX86
ForwardX86(src, count, codeStart, codeEnd) ==
    LET st == X86ForwardLoop(src, codeEnd,
                  [srcIdx |-> codeStart, matches |-> 0,
                   dst |-> <<X86, 0, 0, 0, 0, 0, 0, 0, 0>> \o Slice(src, 0, codeStart)])
        dstIdx == Len(st.dst)
    IN IF st.matches < MIN_MATCHES
       THEN [ok |-> FALSE, dst |-> <<>>, inIdx |-> 0, outIdx |-> 0, matches |-> st.matches,
             srcEnd |-> st.srcIdx, fpRun |-> 0]
       ELSE [ok |-> TRUE,
             dst |-> Prologue(X86, codeStart, dstIdx) \o Slice(st.dst, 9, dstIdx)
                     \o Slice(src, st.srcIdx, count),
             inIdx |-> count, outIdx |-> dstIdx + (count - st.srcIdx),
             matches |-> st.matches, srcEnd |-> st.srcIdx, fpRun |-> 0]

\* inverseX86: the while loop.  st = [srcIdx, dst]; dstIdx is Len(dst)
RECURSIVE X86InverseLoop(_, _, _)
X86InverseLoop(src, codeEnd, st) ==
    LET Jump(srcIdx, dst) ==
            LET addr == XorMaskAddress(ReadInt32BE(src, srcIdx + 1))
            IN X86InverseLoop(src, codeEnd,
                   [srcIdx |-> srcIdx + 5,
                    dst |-> dst \o <<At(src, srcIdx)>> \o Int32LE(X86Offset(addr, Len(dst)))])
        Literal(srcIdx, dst) ==
            LET from == IF At(src, srcIdx) = X86_ESCAPE THEN srcIdx + 1 ELSE srcIdx
            IN X86InverseLoop(src, codeEnd,
                   [srcIdx |-> from + 1, dst |-> dst \o <<At(src, from)>>])
    IN IF st.srcIdx >= codeEnd THEN st
       ELSE IF At(src, st.srcIdx) = X86_TWO_BYTE_PREFIX
            THEN IF BitAnd(At(src, st.srcIdx + 1), X86_MASK_JCC) # X86_INSTRUCTION_JCC
                 THEN Literal(st.srcIdx + 1, st.dst \o <<At(src, st.srcIdx)>>)
                 ELSE Jump(st.srcIdx + 1, st.dst \o <<At(src, st.srcIdx)>>)
       ELSE IF BitAnd(At(src, st.srcIdx), X86_MASK_JUMP) # X86_INSTRUCTION_JUMP
            THEN Literal(st.srcIdx, st.dst)
       ELSE Jump(st.srcIdx, st.dst)

\* X86Codec::inverseX86
InverseX86(src, count) ==
    LET codeStart == ReadInt32LE(src, 1)
        codeEnd == ReadInt32LE(src, 5)
        st == X86InverseLoop(src, codeEnd,
                  [srcIdx |-> 9 + Max(codeStart, 0),
                   dst |-> IF codeStart > 0 THEN Slice(src, 9, 9 + codeStart) ELSE <<>>])
    IN [ok |-> TRUE, dst |-> st.dst \o Slice(src, st.srcIdx, count),
        inIdx |-> count, outIdx |-> Len(st.dst) + (count - st.srcIdx)]

\* X86Codec.hpp.  ARM_OPCODE_BL is 0x94000000 as an int.
ARM_B_ADDR_MASK == 67108863

ARM_B_ADDR_SGN_MASK == 33554432

ARM_OPCODE_B == 335544320

ARM_OPCODE_BL == -1811939328

\* "Early exit if likely outside a code section"
MAX_FP_RUN == 4

\* instr & ARM_B_OPCODE_MASK, the mask being ~ARM_B_ADDR_MASK
ArmOpcode1(instr) == instr - (instr % (ARM_B_ADDR_MASK + 1))

\* isBL
ArmIsBL(instr) == ArmOpcode1(instr) \in {ARM_OPCODE_B, ARM_OPCODE_BL}

\* forwardARM: addr, clamped at 0
ArmTarget(srcIdx, instr) ==
    LET offset == instr % (ARM_B_ADDR_MASK + 1)
        sgn == BitAnd(offset, ARM_B_ADDR_SGN_MASK)
        addr == srcIdx + 4 * (IF sgn = 0 THEN offset ELSE offset - (ARM_B_ADDR_MASK + 1))
    IN IF addr < 0 THEN 0 ELSE addr

\* opcode1 | a, a >= 0
ArmOr(opcode1, a) ==
    LET top == BitOr(Shr(opcode1, 26) % 64, Shr(a, 26) % 64)
    IN (IF top >= 32 THEN top - 64 ELSE top) * (ARM_B_ADDR_MASK + 1)
       + (a % (ARM_B_ADDR_MASK + 1))

\* forwardARM: val = opcode1 | (addr >> 2)
ArmForwardVal(instr, addr) == ArmOr(ArmOpcode1(instr), Shr(addr, 2))

\* inverseARM: addr = (instr & ARM_B_ADDR_MASK) << 2
ArmStoredAddr(instr) == (instr % (ARM_B_ADDR_MASK + 1)) * 4

\* inverseARM: val = opcode1 | (((addr - dstIdx) >> 2) & ARM_B_ADDR_MASK)
ArmInverseVal(instr, addr, dstIdx) ==
    ArmOpcode1(instr) + (Shr(addr - dstIdx, 2) % (ARM_B_ADDR_MASK + 1))

\* forwardARM: the while loop.  st = [srcIdx, dst, matches, fpRun]
RECURSIVE ARMForwardLoop(_, _, _)
ARMForwardLoop(src, codeEnd, st) ==
    IF st.srcIdx >= codeEnd THEN st
    ELSE LET instr == ReadInt32LE(src, st.srcIdx)
             addr == ArmTarget(st.srcIdx, instr)
             val == ArmForwardVal(instr, addr)
             word == Slice(src, st.srcIdx, st.srcIdx + 4)
         IN IF ~ArmIsBL(instr)
            THEN ARMForwardLoop(src, codeEnd,
                     [st EXCEPT !.srcIdx = @ + 4, !.dst = @ \o word])
            ELSE IF addr = 0
            THEN IF st.fpRun + 1 = MAX_FP_RUN
                 THEN [st EXCEPT !.fpRun = @ + 1]
                 ELSE ARMForwardLoop(src, codeEnd,
                          [st EXCEPT !.srcIdx = @ + 4, !.dst = @ \o Int32LE(val) \o word,
                                     !.fpRun = @ + 1])
            ELSE ARMForwardLoop(src, codeEnd,
                     [st EXCEPT !.srcIdx = @ + 4, !.dst = @ \o Int32LE(val),
                                !.fpRun = 0, !.matches = @ + 1])

\* X86Codec::forwardARM
ForwardARM(src, count, codeStart, codeEnd) ==
    LET st == ARMForwardLoop(src, codeEnd,
                  [srcIdx |-> codeStart, matches |-> 0, fpRun |-> 0,
                   dst |-> <<ARM64, 0, 0, 0, 0, 0, 0, 0, 0>> \o Slice(src, 0, codeStart)])
        dstIdx == Len(st.dst)
    IN IF st.matches < MIN_MATCHES
       THEN [ok |-> FALSE, dst |-> <<>>, inIdx |-> 0, outIdx |-> 0, matches |-> st.matches,
             srcEnd |-> st.srcIdx, fpRun |-> st.fpRun]
       ELSE [ok |-> TRUE,
             dst |-> Prologue(ARM64, codeStart, dstIdx) \o Slice(st.dst, 9, dstIdx)
                     \o Slice(src, st.srcIdx, count),
             inIdx |-> count, outIdx |-> dstIdx + (count - st.srcIdx),
             matches |-> st.matches, srcEnd |-> st.srcIdx, fpRun |-> st.fpRun]

\* inverseARM: the while loop.  st = [srcIdx, dst, fpRun]; dstIdx is Len(dst)
RECURSIVE ARMInverseLoop(_, _, _)
ARMInverseLoop(src, codeEnd, st) ==
    IF st.srcIdx >= codeEnd THEN st
    ELSE LET instr == ReadInt32LE(src, st.srcIdx)
             addr == ArmStoredAddr(instr)
             val == ArmInverseVal(instr, addr, Len(st.dst))
         IN IF ~ArmIsBL(instr)
            THEN ARMInverseLoop(src, codeEnd,
                     [st EXCEPT !.srcIdx = @ + 4,
                                !.dst = @ \o Slice(src, st.srcIdx, st.srcIdx + 4)])
            ELSE IF addr = 0
            THEN IF st.fpRun + 1 = MAX_FP_RUN
                 THEN [st EXCEPT !.fpRun = @ + 1]
                 ELSE ARMInverseLoop(src, codeEnd,
                          [st EXCEPT !.srcIdx = @ + 8,
                                     !.dst = @ \o Slice(src, st.srcIdx + 4, st.srcIdx + 8),
                                     !.fpRun = @ + 1])
            ELSE ARMInverseLoop(src, codeEnd,
                     [st EXCEPT !.srcIdx = @ + 4, !.dst = @ \o Int32LE(val), !.fpRun = 0])

\* X86Codec::inverseARM
InverseARM(src, count) ==
    LET codeStart == ReadInt32LE(src, 1)
        codeEnd == ReadInt32LE(src, 5)
        st == ARMInverseLoop(src, codeEnd,
                  [srcIdx |-> 9 + Max(codeStart, 0), fpRun |-> 0,
                   dst |-> IF codeStart > 0 THEN Slice(src, 9, 9 + codeStart) ELSE <<>>])
    IN [ok |-> TRUE, dst |-> st.dst \o Slice(src, st.srcIdx, count),
        inIdx |-> count, outIdx |-> Len(st.dst) + (count - st.srcIdx)]

\* X86Codec::inverse: the mode byte selects the decoder
EXEInverse(src, count) ==
    IF count = 0 THEN [ok |-> TRUE, dst |-> <<>>, inIdx |-> 0, outIdx |-> 0]
    ELSE IF At(src, 0) = X86 THEN InverseX86(src, count)
    ELSE IF At(src, 0) = ARM64 THEN InverseARM(src, count)
    ELSE [ok |-> FALSE, dst |-> <<>>, inIdx |-> 0, outIdx |-> 0]

\* Blocks.  An X86 block is [the bytes before codeStart,] two chosen pieces of
\* code, MIN_MATCHES - 1 or MIN_MATCHES relative jumps and calls, a last
\* piece, and 8 bytes after codeEnd's upper limit; an ARM64 block likewise.
X86Pieces ==
    {<<65>>, <<155>>, <<15>>, <<15, 5>>, <<15, 155>>,
     <<232, 1, 2, 3, 4>>, <<233, 0, 0, 0, 255>>, <<15, 133, 17, 34, 51, 68>>,
     <<232, 16, 0, 0, 0>>, <<233, 240, 255, 255, 255>>,
     <<15, 132, 32, 1, 0, 0>>, <<15, 143, 254, 255, 255, 255>>}

\* the pieces that follow another piece
X86Seconds ==
    {<<155>>, <<15, 155>>, <<233, 0, 0, 0, 255>>, <<15, 143, 254, 255, 255, 255>>}

X86JumpAt(k) ==
    CASE k % 4 = 0 -> <<232>> \o Int32LE(3 * k + 1)
      [] k % 4 = 1 -> <<233>> \o Int32LE(-(k + 2))
      [] k % 4 = 2 -> <<15, 132>> \o Int32LE(300 + k)
      [] OTHER -> <<15, 143>> \o Int32LE(-(70000 + k))

RECURSIVE X86Jumps(_, _)
X86Jumps(k, n) == IF k >= n THEN <<>> ELSE X86JumpAt(k) \o X86Jumps(k + 1, n)

X86Head == <<232, 155, 15>>

X86Tails == {<<133, 4, 0, 0, 0, 232, 0, 155>>, <<155, 232, 0, 0, 0, 0, 15, 128>>}

X86Blocks ==
    {[mode |-> X86, src |-> t[1] \o t[2] \o t[3] \o X86Jumps(0, t[4]) \o t[5] \o t[6],
      codeStart |-> Len(t[1]),
      codeEnd |-> Len(t[1] \o t[2] \o t[3] \o X86Jumps(0, t[4]) \o t[5]) - t[7]] :
        t \in {<<>>, X86Head} \X X86Pieces \X X86Seconds \X {MIN_MATCHES - 1, MIN_MATCHES}
              \X {<<>>, <<15>>} \X X86Tails \X {0, 5}}

ArmNop == <<31, 32, 3, 213>>

\* B/BL whose target is before the start of the block
ArmFar == Int32LE(ARM_OPCODE_B + ARM_B_ADDR_SGN_MASK)

ARMPieces ==
    {ArmNop, Int32LE(ARM_OPCODE_B + 2), Int32LE(ARM_OPCODE_BL + ARM_B_ADDR_MASK),
     ArmFar, Int32LE(ARM_OPCODE_BL)}

ArmBranchAt(k) ==
    IF k % 2 = 0 THEN Int32LE(ARM_OPCODE_B + k + 1)
    ELSE Int32LE(ARM_OPCODE_BL + ARM_B_ADDR_MASK - (k % 3))

RECURSIVE ArmBranches(_, _)
ArmBranches(k, n) == IF k >= n THEN <<>> ELSE ArmBranchAt(k) \o ArmBranches(k + 1, n)

ARMEnds ==
    {<<>>, ArmFar \o ArmFar \o ArmFar \o Int32LE(ARM_OPCODE_B + 1),
     ArmFar \o ArmFar \o ArmFar \o ArmFar \o Int32LE(ARM_OPCODE_B + 1)}

\* the bytes before codeStart: a codeStart of 0, of 4 and of 5
ARMHeads == {<<>>, <<2, 0, 0, 20>>, <<2, 0, 0, 20, 7>>}

ARMTail == <<1, 0, 0, 20, 9, 9, 9, 9>>

ARMBlocks ==
    {[mode |-> ARM64, src |-> t[1] \o t[2] \o t[3] \o ArmBranches(0, t[4]) \o t[5] \o ARMTail,
      codeStart |-> Len(t[1]),
      codeEnd |-> Len(t[1] \o t[2] \o t[3] \o ArmBranches(0, t[4]) \o t[5]) - t[6]] :
        t \in ARMHeads \X ARMPieces \X ARMPieces \X {MIN_MATCHES - 1, MIN_MATCHES}
              \X ARMEnds \X {0, 5}}

\* X86Codec::forward after detectType chose mode, codeStart and codeEnd
EXEInit ==
    /\ ePhase = "start"
    /\ eBlock \in X86Blocks \cup ARMBlocks
    /\ eFwd = NoEXE
    /\ eInv = NoEXE

EXEForwardStep ==
    /\ ePhase = "start"
    /\ LET r == IF eBlock.mode = X86
                THEN ForwardX86(eBlock.src, Len(eBlock.src), eBlock.codeStart, eBlock.codeEnd)
                ELSE ForwardARM(eBlock.src, Len(eBlock.src), eBlock.codeStart, eBlock.codeEnd)
       IN /\ eFwd' = r
          /\ ePhase' = IF r.ok THEN "forward" ELSE "declined"
    /\ UNCHANGED <<eBlock, eInv, NotEXE>>

\* X86Codec::inverse on what forward wrote
EXEInverseStep ==
    /\ ePhase = "forward"
    /\ LET r == EXEInverse(eFwd.dst, Len(eFwd.dst))
       IN eInv' = [ok |-> r.ok, dst |-> r.dst, inIdx |-> r.inIdx, outIdx |-> r.outIdx,
                   matches |-> 0, srcEnd |-> 0, fpRun |-> 0]
    /\ ePhase' = "inverse"
    /\ UNCHANGED <<eBlock, eFwd, NotEXE>>

EXENext == EXEForwardStep \/ EXEInverseStep

\* Only the EXE filter runs.
EXEAlone == EXEInit /\ CodecIdle /\ BWTIdle /\ ROLZ1Idle /\ ROLZ2Idle /\ WrapIdle /\ ValidateIdle /\ AliasIdle

SpecEXE == EXEAlone /\ [][EXENext]_vars

-----------------------------------------------------------------------------
(*                     Claims on the EXE filter                            *)

\* C5: X86 round trip.  When forwardX86 returned true and inverseX86 ran on
\* its output, inverse returned true, consumed the whole output and produced
\* exactly the block: every rewritten offset and every escaped byte is back.
C5_X86RoundTrip ==
    (ePhase = "inverse" /\ eBlock.mode = X86) =>
        /\ eInv.ok
        /\ eInv.dst = eBlock.src
        /\ eInv.inIdx = Len(eFwd.dst)
        /\ eInv.outIdx = Len(eBlock.src)

\* An X86 block with bytes before codeStart came back, in which forward
\* rewrote at least MIN_MATCHES offsets and added escape bytes.
C5_Witness ==
    /\ ePhase = "inverse"
    /\ eBlock.mode = X86
    /\ eBlock.codeStart > 0
    /\ eFwd.matches > MIN_MATCHES
    /\ eFwd.outIdx > Len(eBlock.src) + 9
    /\ eInv.dst = eBlock.src

\* C6: ARM64 round trip.  When forwardARM returned true and inverseARM ran on
\* its output, inverse produced exactly the block, whatever codeStart is.
C6_ARMRoundTrip ==
    (ePhase = "inverse" /\ eBlock.mode = ARM64) =>
        /\ eInv.ok
        /\ eInv.dst = eBlock.src
        /\ eInv.inIdx = Len(eFwd.dst)
        /\ eInv.outIdx = Len(eBlock.src)


\* C18: EXE decline.  When fewer than 16 branch targets were rewritten,
\* forwardX86 and forwardARM return false and leave input._index and
\* output._index where they were (inIdx and outIdx are the advances).
C18_EXEDecline ==
    (ePhase # "start" /\ eFwd.matches < MIN_MATCHES) =>
        /\ ePhase = "declined"
        /\ ~eFwd.ok
        /\ eFwd.inIdx = 0
        /\ eFwd.outIdx = 0

\* forwardX86 declined after it rewrote some targets, fewer than 16
C18_Witness ==
    /\ ePhase = "declined"
    /\ eBlock.mode = X86
    /\ eFwd.matches > 0
    /\ eFwd.matches < MIN_MATCHES
    /\ eFwd.srcEnd > 0

\* forwardARM declined after it rewrote some targets, fewer than 16
C18_WitnessARM ==
    /\ ePhase = "declined"
    /\ eBlock.mode = ARM64
    /\ eFwd.matches > 0
    /\ eFwd.matches < MIN_MATCHES

\* C26: ARM64 false positives.  When forwardARM met a 4th consecutive B/BL
\* whose computed target is 0, the transform is aborted: forwardARM
\* returned false.
C26_ARMFalsePositives ==
    (ePhase # "start" /\ eBlock.mode = ARM64 /\ eFwd.fpRun = MAX_FP_RUN) => ~eFwd.ok

-----------------------------------------------------------------------------
(*            The ROLZ match engine (ROLZCodec.cpp, C++)                   *)
(*                                                                         *)
(* ROLZCodec.hpp is not part of the sources: the constants below and the   *)
(* inline helpers getKey, hash, emitCopy, emitLength and readLength follow *)
(* the specification, with sizes scaled down.  The slots of _matches hold  *)
(* hash32 | pos: the position below HASH_UNIT, the content hash above it.  *)

\* logPosChecks handed to the constructors (they accept 2..8)
LOG_POS_CHECKS == 2

posChecks == Shl(1, LOG_POS_CHECKS)

\* ROLZCodec::CHUNK_SIZE, scaled
CHUNK_SIZE == 40

\* lowest bit of ROLZCodec::HASH_MASK: no position of a chunk reaches it
HASH_UNIT == 64

\* number of values of the content hash kept in a slot, scaled
HASH_VALUES == 2

MIN_MATCH == 3

\* ROLZCodec1::MAX_MATCH, scaled
MAX_MATCH1 == MIN_MATCH + 7 + 20

\* ROLZCodec2::MAX_MATCH
MAX_MATCH2 == MIN_MATCH + 255

\* ROLZCodec::MIN_BLOCK_SIZE
ROLZ_MIN_BLOCK_SIZE == 64

\* getMaxEncodedLength of both codecs
ROLZMaxEncodedLength(srcLen) == IF srcLen <= 512 THEN srcLen + 64 ELSE srcLen

\* The keys of a table (counters) whose entry is not zero; an entry never
\* stored is zero, as memset left it.
NonZero(f) == {k \in DOMAIN f : f[k] # 0}

\* _counters and _matches as a loop over one chunk left them in st
Tables(st) == [counters |-> st.counters, matches |-> st.matches]

\* A table indexed by key of which only the entries written since the last
\* memset are kept: every other entry is zero.
Lookup(f, k, zero) == IF k \in DOMAIN f THEN f[k] ELSE zero

Store(f, k, v) == (k :> v) @@ f

\* one ring of _matches after memset
ZeroRing == [i \in 0..(posChecks - 1) |-> 0]

\* ROLZCodec::getKey: 16 bits of the two bytes before the position
getKey(p0, p1) == p0 + 256 * p1

\* ROLZCodec::hash: the bits of HASH_MASK, derived from the four bytes p[0..3]
hash(p0, p1, p2, p3) == ((p0 + 3 * p1 + 5 * p2 + 7 * p3) % HASH_VALUES) * HASH_UNIT

\* ref & HASH_MASK and ref & ~HASH_MASK
HashOf(ref) == ref - (ref % HASH_UNIT)

PosOf(ref) == ref % HASH_UNIT

\* findMatch, the strides of four bytes: memcmp(&buf[ref + n], &curBuf[n], 4)
RECURSIVE MatchStride(_, _, _, _, _)
MatchStride(buf, ref, cur, n, maxMatch) ==
    IF n + 4 < maxMatch /\ (\A k \in 0..3 : At(buf, ref + n + k) = At(buf, cur + n + k))
    THEN MatchStride(buf, ref, cur, n + 4, maxMatch)
    ELSE n

\* findMatch, the byte by byte tail of the comparison
RECURSIVE MatchRun(_, _, _, _, _)
MatchRun(buf, ref, cur, n, maxMatch) ==
    IF n < maxMatch /\ At(buf, ref + n) = At(buf, cur + n)
    THEN MatchRun(buf, ref, cur, n + 1, maxMatch)
    ELSE n

\* findMatch, "Check all recorded positions": i runs from counter down to
\* counter - _posChecks + 1; st = [i, bestLen, bestIdx].  buf is the block,
\* base the index of the chunk in it, pos the position in the chunk.
RECURSIVE CheckPositions(_, _, _, _, _, _, _, _)
CheckPositions(buf, base, pos, ring, hash32, counter, maxMatch, st) ==
    IF st.i <= counter - posChecks THEN st
    ELSE LET slot == ring[st.i % posChecks]
             next == [st EXCEPT !.i = @ - 1]
         IN IF HashOf(slot) # hash32
            THEN CheckPositions(buf, base, pos, ring, hash32, counter, maxMatch, next)
            ELSE IF At(buf, base + PosOf(slot) + st.bestLen) # At(buf, base + pos + st.bestLen)
            THEN CheckPositions(buf, base, pos, ring, hash32, counter, maxMatch, next)
            ELSE LET ref == base + PosOf(slot)
                     n == MatchRun(buf, ref, base + pos,
                                   MatchStride(buf, ref, base + pos, 0, maxMatch), maxMatch)
                 IN IF n > st.bestLen
                    THEN IF n = maxMatch
                         THEN [i |-> st.i, bestLen |-> n, bestIdx |-> counter - st.i]
                         ELSE CheckPositions(buf, base, pos, ring, hash32, counter, maxMatch,
                                  [i |-> st.i - 1, bestLen |-> n, bestIdx |-> counter - st.i])
                    ELSE CheckPositions(buf, base, pos, ring, hash32, counter, maxMatch, next)

\* a bound that lets a match run one byte past end
MaxMatchPastEnd(MAX_MATCH, end, pos) == Min(MAX_MATCH, end - pos + 1)

\* findMatch: maxMatch = min(MAX_MATCH, end - pos)
MaxMatchAt(MAX_MATCH, end, pos) == Min(MAX_MATCH, end - pos)

\* ROLZCodec1::findMatch and ROLZCodec2::findMatch (the same code but for
\* MAX_MATCH): the match packed as (bestIdx << 16) | (bestLen - MIN_MATCH)
\* or -1, and the tables after the position was registered.  The result
\* keeps what the call was made with: pos, end, the key and the hash of the
\* position, _counters[key] and the ring of the key as the call found them.
findMatch(buf, base, pos, end, counters, matches, MAX_MATCH) ==
    LET key == getKey(At(buf, base + pos - 2), At(buf, base + pos - 1))
        counter == Lookup(counters, key, 0)
        ring == Lookup(matches, key, ZeroRing)
        hash32 == hash(At(buf, base + pos), At(buf, base + pos + 1),
                       At(buf, base + pos + 2), At(buf, base + pos + 3))
        maxMatch == MaxMatchAt(MAX_MATCH, end, pos)
        best == CheckPositions(buf, base, pos, ring, hash32, counter, maxMatch,
                               [i |-> counter, bestLen |-> 0, bestIdx |-> -1])
        registered == (counter + 1) % posChecks
    IN [match |-> IF best.bestLen < MIN_MATCH THEN -1
                  ELSE best.bestIdx * 65536 + (best.bestLen - MIN_MATCH),
        counters |-> Store(counters, key, registered),
        matches |-> Store(matches, key, [ring EXCEPT ![registered] = hash32 + pos]),
        pos |-> pos, end |-> end, key |-> key, hash32 |-> hash32,
        counter |-> counter, ring |-> ring]

ROLZCodec1FindMatch(buf, base, pos, end, counters, matches) ==
    findMatch(buf, base, pos, end, counters, matches, MAX_MATCH1)

ROLZCodec2FindMatch(buf, base, pos, end, counters, matches) ==
    findMatch(buf, base, pos, end, counters, matches, MAX_MATCH2)

\* the cells of an output array written so far, and one more
DstAt(dst, i) == Lookup(dst, i, 0)

\* ROLZCodec::emitCopy: matchLen + MIN_MATCH bytes from buf[ref] to
\* buf[dstIdx], byte by byte (the ranges may overlap); buf starts at base.
\* st = [dst, dstIdx, ref, n], n the bytes still to copy.
RECURSIVE CopyBytes(_, _)
CopyBytes(base, st) ==
    IF st.n = 0 THEN st
    ELSE CopyBytes(base, [dst |-> Store(st.dst, base + st.dstIdx, DstAt(st.dst, base + st.ref)),
                          dstIdx |-> st.dstIdx + 1, ref |-> st.ref + 1, n |-> st.n - 1])

emitCopy(dst, base, dstIdx, ref, matchLen) ==
    LET st == CopyBytes(base, [dst |-> dst, dstIdx |-> dstIdx, ref |-> ref,
                               n |-> matchLen + MIN_MATCH])
    IN [dst |-> st.dst, dstIdx |-> st.dstIdx]

\* a block as the cells of an array, to compare dst with
Cells(x) == [i \in 0..(Len(x) - 1) |-> x[i + 1]]

ROLZKinds == 0..4

\* byte i of a block: a run, a short period, a small alphabet without
\* period, bytes that never repeat, a period broken every eleven bytes
ROLZByte(kind, i) ==
    CASE kind = 0 -> 0
      [] kind = 1 -> i % 3
      [] kind = 2 -> ((i * i + 3 * i) % 7) % 3
      [] kind = 3 -> (7 * i + 1) % 251
      [] OTHER -> IF i % 11 = 10 THEN 9 ELSE i % 4

ROLZBlock(kind, count) == [i \in 1..count |-> ROLZByte(kind, i - 1)]

\* output._length: too short for forward to start, or long enough
ROLZOutLengths(count) == {count, ROLZMaxEncodedLength(count)}

-----------------------------------------------------------------------------
(*                       ROLZ1: ROLZCodec1                                 *)
(*                                                                         *)
(* The ANS coders are not part of the sources.  They are taken as a        *)
(* lossless pair: what forward hands to encode is what decode hands back,  *)
(* and the decoder consumes the bytes the encoder produced.  How many      *)
(* bytes that is, is not known to the model.                               *)

\* ROLZCodec::emitLength: 0xFF while v >= 255, then what is left
RECURSIVE emitLength(_)
emitLength(v) == IF v >= 255 THEN <<255>> \o emitLength(v - 255) ELSE <<v>>

\* byte i of a scratch buffer; past what was stored in it the memory holds
\* what the allocator left there
ScratchAt(buf, i) == IF i < Len(buf) THEN buf[i + 1] ELSE 0

\* ROLZCodec::readLength: the value and the index after it
RECURSIVE readLength(_, _)
readLength(buf, idx) ==
    IF ScratchAt(buf, idx) = 255
    THEN LET r == readLength(buf, idx + 1) IN [val |-> r.val + 255, idx |-> r.idx]
    ELSE [val |-> ScratchAt(buf, idx), idx |-> idx + 1]

\* A scratch buffer of capacity cap that took Len(buf) bytes.  The bytes
\* past its capacity went to memory the buffer does not own: read back,
\* they are what was written (clobber < 0) or what another owner of that
\* memory stored there since.
Scratch(buf, cap, clobber) ==
    [i \in 1..Len(buf) |-> IF i > cap /\ clobber >= 0 THEN clobber ELSE buf[i]]

\* the three buffers of one chunk against the capacities forward and
\* inverse allocate: sizeChunk / 4 for tkBuf and mIdxBuf, sizeChunk / 5 for lenBuf
Overflows(c, sizeChunk) ==
    \/ Len(c.tk) > sizeChunk \div 4
    \/ Len(c.mIdx) > sizeChunk \div 4
    \/ Len(c.len) > sizeChunk \div 5

ScratchChunk(c, sizeChunk, clobber) ==
    [c EXCEPT !.tk = Scratch(@, sizeChunk \div 4, clobber),
              !.mIdx = Scratch(@, sizeChunk \div 4, clobber),
              !.len = Scratch(@, sizeChunk \div 5, clobber)]

\* ROLZCodec1::forward, what one turn of the loop does with the match
\* findMatch returned: next position when there is none, else the token,
\* the lengths, the literals and the match index
ROLZ1Emit(x, startChunk, st, m) ==
    IF m.match < 0
    THEN [st EXCEPT !.srcIdx = @ + 1, !.counters = m.counters,
                    !.matches = m.matches, !.calls = Append(@, m)]
    ELSE LET litLen == st.srcIdx - st.firstLitIdx
             mode == IF litLen < 31 THEN litLen * 8 ELSE 248
             mLen == m.match % 65536
             next == st.srcIdx + mLen + MIN_MATCH
         IN [srcIdx |-> next, firstLitIdx |-> next,
             counters |-> m.counters, matches |-> m.matches,
             tk |-> Append(st.tk, IF mLen >= 7 THEN mode + 7 ELSE mode + mLen),
             len |-> st.len \o (IF mLen >= 7 THEN emitLength(mLen - 7) ELSE <<>>)
                            \o (IF litLen >= 31 THEN emitLength(litLen - 31)
                                ELSE <<>>),
             lit |-> st.lit \o Slice(x, startChunk + st.firstLitIdx,
                                     startChunk + st.firstLitIdx + litLen),
             mIdx |-> Append(st.mIdx, (m.match \div 65536) % 256),
             calls |-> Append(st.calls, m)]

\* ROLZCodec1::forward, one turn of the loop over the positions of a chunk
ROLZ1ForwardAt(x, startChunk, sizeChunk, st) ==
    ROLZ1Emit(x, startChunk, st,
              ROLZCodec1FindMatch(x, startChunk, st.srcIdx, sizeChunk,
                                  st.counters, st.matches))

\* ROLZCodec1::forward, the loop over the positions of one chunk
RECURSIVE ROLZ1ForwardLoop(_, _, _, _)
ROLZ1ForwardLoop(x, startChunk, sizeChunk, st) ==
    IF st.srcIdx >= sizeChunk THEN st
    ELSE ROLZ1ForwardLoop(x, startChunk, sizeChunk,
                          ROLZ1ForwardAt(x, startChunk, sizeChunk, st))

\* ROLZCodec1::forward, "Emit last chunk literals" after the loop left st
ROLZ1LastChunkLiterals(x, startChunk, st) ==
    LET litLen == st.srcIdx - st.firstLitIdx
        mode == IF litLen < 31 THEN litLen * 8 ELSE 248
    IN [srcIdx |-> st.srcIdx, counters |-> st.counters, matches |-> st.matches,
        calls |-> st.calls,
        tk |-> Append(st.tk, mode),
        len |-> st.len \o (IF litLen >= 31 THEN emitLength(litLen - 31) ELSE <<>>),
        lit |-> st.lit \o Slice(x, startChunk + st.firstLitIdx,
                                startChunk + st.firstLitIdx + litLen),
        mIdx |-> st.mIdx]

\* ROLZCodec1::forward, one chunk: the first literals, the loop and "Emit
\* last chunk literals"
ROLZ1ForwardChunk(x, srcEnd, startChunk, sizeChunk, counters) ==
    LET first == IF startChunk + 1 < srcEnd THEN 2 ELSE 1
    IN ROLZ1LastChunkLiterals(x, startChunk,
           ROLZ1ForwardLoop(x, startChunk, sizeChunk,
               [srcIdx |-> first, firstLitIdx |-> first, counters |-> counters,
                matches |-> <<>>, tk |-> <<>>, len |-> <<>>, mIdx |-> <<>>,
                lit |-> Slice(x, startChunk, startChunk + first), calls |-> <<>>]))

\* the bytes of one chunk in the bitstream: four lengths of 32 bits and
\* what the two ANS encoders made of the four buffers
ChunkBytes(c, expansion) ==
    16 + expansion * (Len(c.lit) + Len(c.tk) + Len(c.len) + Len(c.mIdx))

\* ROLZCodec1::forward, the end of one turn of the main loop: the chunk c
\* goes to the bitstream and from there to dst, unless dst is too short
ROLZ1WriteChunk(outLength, capChunk, in, st, endChunk, c) ==
    LET bufs == [lit |-> c.lit, tk |-> c.tk, len |-> c.len, mIdx |-> c.mIdx, size |-> 0]
        bufSize == ChunkBytes(bufs, in.expansion)
        fault == st.fault \/ Overflows(bufs, capChunk)
    IN IF st.dstIdx + bufSize > outLength
       THEN [st EXCEPT !.success = FALSE, !.inIdx = st.startChunk + c.srcIdx,
                       !.sizeChunk = endChunk - st.startChunk, !.counters = c.counters,
                       !.fault = fault, !.entry = Append(@, NonZero(st.counters)),
                       !.exit = Append(@, Tables(c)), !.calls = Append(@, c.calls)]
       ELSE [startChunk |-> endChunk, sizeChunk |-> endChunk - st.startChunk,
             counters |-> c.counters, dstIdx |-> st.dstIdx + bufSize,
             chunks |-> Append(st.chunks,
                           [ScratchChunk(bufs, capChunk, in.clobber)
                                EXCEPT !.size = bufSize]),
             success |-> TRUE, inIdx |-> st.inIdx, fault |-> fault,
             entry |-> Append(st.entry, NonZero(st.counters)),
             exit |-> Append(st.exit, Tables(c)), calls |-> Append(st.calls, c.calls)]

\* ROLZCodec1::forward, one turn of the main loop
ROLZ1ForwardTurn(x, srcEnd, outLength, capChunk, in, st) ==
    LET endChunk == Min(st.startChunk + st.sizeChunk, srcEnd)
    IN ROLZ1WriteChunk(outLength, capChunk, in, st, endChunk,
           ROLZ1ForwardChunk(x, srcEnd, st.startChunk, endChunk - st.startChunk,
                             st.counters))

\* ROLZCodec1::forward, the main loop
RECURSIVE ROLZ1ForwardChunks(_, _, _, _, _, _)
ROLZ1ForwardChunks(x, srcEnd, outLength, capChunk, in, st) ==
    IF st.startChunk >= srcEnd \/ ~st.success THEN st
    ELSE ROLZ1ForwardChunks(x, srcEnd, outLength, capChunk, in,
                            ROLZ1ForwardTurn(x, srcEnd, outLength, capChunk, in, st))

\* ROLZCodec1::forward after the main loop: "Emit last literals" and the
\* indexes it returns with
ROLZ1ForwardEnd(x, count, outLength, st) ==
    LET srcEnd == count - 4
        last == st.success /\ st.dstIdx + 4 <= outLength
        inIdx == IF ~st.success THEN st.inIdx
                 ELSE IF last THEN srcEnd + 4 ELSE srcEnd
        dstIdx == IF last THEN st.dstIdx + 4 ELSE st.dstIdx
    IN [ok |-> (inIdx = count) /\ (dstIdx < count), inIdx |-> inIdx, outIdx |-> dstIdx,
        chunks |-> st.chunks,
        tail |-> IF last THEN Slice(x, srcEnd, srcEnd + 4) ELSE <<>>,
        fault |-> st.fault, entry |-> st.entry, exit |-> st.exit, calls |-> st.calls]

\* ROLZCodec1::forward.  in.expansion is what the ANS encoders make of one
\* byte, in.clobber what happens to bytes written past a scratch buffer.
ROLZ1Forward(x, count, outLength, in) ==
    IF outLength < ROLZMaxEncodedLength(count)
    THEN NoROLZ1Fwd
    ELSE ROLZ1ForwardEnd(x, count, outLength,
             ROLZ1ForwardChunks(x, count - 4, outLength, Min(count, CHUNK_SIZE), in,
                 [startChunk |-> 0, sizeChunk |-> Min(count, CHUNK_SIZE),
                  counters |-> <<>>, dstIdx |-> 5, chunks |-> <<>>,
                  success |-> TRUE, inIdx |-> 0, fault |-> FALSE, entry |-> <<>>,
                  exit |-> <<>>, calls |-> <<>>]))

\* ROLZCodec1::inverse, the registration of the literals of one token:
\* position dstIdx + n under the key of the two bytes before it;
\* st = [n, counters, matches]
RECURSIVE RegisterLiterals(_, _, _, _, _)
RegisterLiterals(dst, base, dstIdx, litLen, st) ==
    IF st.n >= litLen THEN st
    ELSE LET key == getKey(DstAt(dst, base + dstIdx + st.n - 2),
                           DstAt(dst, base + dstIdx + st.n - 1))
             counter == (Lookup(st.counters, key, 0) + 1) % posChecks
             ring == Lookup(st.matches, key, ZeroRing)
         IN RegisterLiterals(dst, base, dstIdx, litLen,
                [n |-> st.n + 1,
                 counters |-> Store(st.counters, key, counter),
                 matches |-> Store(st.matches, key,
                                   [ring EXCEPT ![counter] = dstIdx + st.n])])

\* memcpy(&buf[dstIdx], &litBuf._array[litBuf._index], litLen)
CopyLiterals(dst, at, lit, litIdx, n) ==
    [i \in at..(at + n - 1) |-> ScratchAt(lit, litIdx + i - at)] @@ dst

\* ROLZCodec1::inverse, one turn of the loop over the tokens of a chunk;
\* buf[0] of the code is cell base.  status: "run", "done" (the chunk is
\* complete) or "fail" (goto End with success = false, dstIdx added to
\* output._index).
ROLZ1InverseAt(c, dstEnd, base, sizeChunk, st) ==
    LET mode == ScratchAt(c.tk, st.tkIdx)
        r1 == IF mode % 8 = 7 THEN readLength(c.len, st.lenIdx)
              ELSE [val |-> 0, idx |-> st.lenIdx]
        matchLen == (mode % 8) + r1.val
        r2 == IF mode < 248 THEN [val |-> mode \div 8, idx |-> r1.idx]
              ELSE LET r == readLength(c.len, r1.idx)
                   IN [val |-> r.val + 31, idx |-> r.idx]
        litLen == r2.val
        dst1 == CopyLiterals(st.dst, base + st.dstIdx, c.lit, st.litIdx, litLen)
        tables == RegisterLiterals(dst1, base, st.dstIdx, litLen,
                      [n |-> 0, counters |-> st.counters, matches |-> st.matches])
        dstIdx == st.dstIdx + litLen
        st1 == [st EXCEPT !.dst = dst1, !.counters = tables.counters,
                          !.matches = tables.matches, !.dstIdx = dstIdx,
                          !.litIdx = @ + litLen, !.tkIdx = @ + 1, !.lenIdx = r2.idx]
    IN IF dstIdx >= sizeChunk
       THEN [st1 EXCEPT !.status = IF dstIdx = sizeChunk THEN "done" ELSE "fail"]
       ELSE IF base + dstIdx + matchLen + MIN_MATCH > dstEnd
       THEN [st1 EXCEPT !.status = "fail"]
       ELSE LET key == getKey(DstAt(dst1, base + dstIdx - 2), DstAt(dst1, base + dstIdx - 1))
                matchIdx == ScratchAt(c.mIdx, st.mIdxIdx)
                counter == Lookup(tables.counters, key, 0)
                ring == Lookup(tables.matches, key, ZeroRing)
                ref == ring[(counter - matchIdx) % posChecks]
                registered == (counter + 1) % posChecks
                copy == emitCopy(dst1, base, dstIdx, ref, matchLen)
            IN [st1 EXCEPT !.counters = Store(tables.counters, key, registered),
                           !.matches = Store(tables.matches, key,
                                             [ring EXCEPT ![registered] = dstIdx]),
                           !.mIdxIdx = @ + 1,
                           !.dst = copy.dst, !.dstIdx = copy.dstIdx]

\* ROLZCodec1::inverse, the loop over the tokens of one chunk
RECURSIVE ROLZ1InverseLoop(_, _, _, _, _)
ROLZ1InverseLoop(c, dstEnd, base, sizeChunk, st) ==
    IF st.dstIdx >= sizeChunk \/ st.status # "run" THEN st
    ELSE ROLZ1InverseLoop(c, dstEnd, base, sizeChunk,
                          ROLZ1InverseAt(c, dstEnd, base, sizeChunk, st))

\* _counters and _matches as the loop over the tokens of a chunk left them,
\* and the indexes of the four scratch buffers, the bytes it read of each
TablesAndCursors(body) ==
    [counters |-> body.counters, matches |-> body.matches,
     litIdx |-> body.litIdx, tkIdx |-> body.tkIdx,
     lenIdx |-> body.lenIdx, mIdxIdx |-> body.mIdxIdx]

\* ROLZCodec1::inverse, the end of one turn of the main loop, body being
\* what the loop over the tokens of the chunk left
ROLZ1InverseNext(capChunk, st, endChunk, coded, body) ==
    [startChunk |-> IF body.status = "fail" THEN st.startChunk ELSE endChunk,
     sizeChunk |-> endChunk - st.startChunk,
     outIndex |-> st.outIndex + body.dstIdx,
     srcIdx |-> st.srcIdx + coded.size,
     counters |-> body.counters, dst |-> body.dst,
     success |-> body.status # "fail", ci |-> st.ci + 1,
     fault |-> st.fault \/ Overflows(coded, capChunk),
     entry |-> Append(st.entry, NonZero(st.counters)),
     exit |-> Append(st.exit, TablesAndCursors(body))]

\* ROLZCodec1::inverse, the chunk c decoded into the scratch buffers: its
\* first literals and the loop over its tokens
ROLZ1InverseChunk(dstEnd, sizeChunk, st, c) ==
    LET two == st.outIndex + 1 < dstEnd
        dst1 == Store(st.dst, st.outIndex, ScratchAt(c.lit, 0))
        first == IF two THEN 2 ELSE 1
    IN ROLZ1InverseLoop(c, dstEnd, st.outIndex, sizeChunk,
           [dstIdx |-> first, litIdx |-> first, tkIdx |-> 0,
            lenIdx |-> 0, mIdxIdx |-> 0, counters |-> st.counters,
            matches |-> <<>>,
            dst |-> IF two THEN Store(dst1, st.outIndex + 1, ScratchAt(c.lit, 1))
                    ELSE dst1,
            status |-> "run"])

\* ROLZCodec1::inverse, one turn of the main loop on the chunk the
\* bitstream holds at srcIdx
ROLZ1InverseTurn(dstEnd, capChunk, clobber, st, coded) ==
    LET endChunk == Min(st.startChunk + st.sizeChunk, dstEnd)
        sizeChunk == endChunk - st.startChunk
    IN IF \/ Len(coded.lit) > sizeChunk \/ Len(coded.tk) > sizeChunk
          \/ Len(coded.len) > sizeChunk \/ Len(coded.mIdx) > sizeChunk
       THEN [st EXCEPT !.success = FALSE, !.outIndex = st.startChunk,
                       !.sizeChunk = sizeChunk, !.entry = Append(@, NonZero(st.counters))]
       ELSE ROLZ1InverseNext(capChunk, st, endChunk, coded,
                ROLZ1InverseChunk(dstEnd, sizeChunk, st,
                                  ScratchChunk(coded, capChunk, clobber)))

\* ROLZCodec1::inverse, the main loop.  chunks[ci + 1] is the chunk the
\* bitstream holds at srcIdx.
RECURSIVE ROLZ1InverseChunks(_, _, _, _, _)
ROLZ1InverseChunks(chunks, dstEnd, capChunk, clobber, st) ==
    IF st.startChunk >= dstEnd \/ ~st.success THEN st
    ELSE ROLZ1InverseChunks(chunks, dstEnd, capChunk, clobber,
             ROLZ1InverseTurn(dstEnd, capChunk, clobber, st, chunks[st.ci + 1]))

\* "Emit last chunk literals": dst[output._index++] = src[srcIdx++], four times
RECURSIVE ROLZ1LastLiterals(_, _, _, _)
ROLZ1LastLiterals(dst, outIndex, tail, i) ==
    IF i >= 4 THEN dst
    ELSE ROLZ1LastLiterals(Store(dst, outIndex + i, ScratchAt(tail, i)), outIndex, tail, i + 1)

\* ROLZCodec1::inverse after the main loop: "Emit last chunk literals" and
\* the indexes it returns with
ROLZ1InverseEnd(tail, count, st) ==
    LET srcIdx == IF st.success THEN st.srcIdx + 4 ELSE st.srcIdx
    IN [ok |-> srcIdx = count, inIdx |-> srcIdx,
        outIdx |-> IF st.success THEN st.outIndex + 4 ELSE st.outIndex,
        dst |-> IF st.success THEN ROLZ1LastLiterals(st.dst, st.outIndex, tail, 0)
                ELSE st.dst,
        fault |-> st.fault, success |-> st.success, entry |-> st.entry,
        exit |-> st.exit]

\* ROLZCodec1::inverse on the count bytes forward wrote for a block of
\* dstEnd + 4 bytes
ROLZ1Inverse(chunks, tail, count, dstEnd, clobber) ==
    ROLZ1InverseEnd(tail, count,
        ROLZ1InverseChunks(chunks, dstEnd, Min(dstEnd, CHUNK_SIZE), clobber,
            [startChunk |-> 0, sizeChunk |-> Min(dstEnd, CHUNK_SIZE), outIndex |-> 0,
             srcIdx |-> 5, counters |-> <<>>, dst |-> <<>>, success |-> TRUE,
             ci |-> 0, fault |-> FALSE, entry |-> <<>>, exit |-> <<>>]))

\* The blocks ROLZ1 is run on: from MIN_BLOCK_SIZE up, one, two and three
\* chunks, the last of them of one byte, of two and of more.
ROLZ1Counts == {ROLZ_MIN_BLOCK_SIZE, 65, 80, 84, 85, 86, 100}

\* 33 bytes that never repeat, then the bytes 3..9 of the chunk again: a
\* run of more than 31 literals before a match that ends with the chunk
LongRunByte(i) ==
    IF i % CHUNK_SIZE < 33 THEN (7 * (i % CHUNK_SIZE) + 1) % 251
    ELSE (7 * ((i % CHUNK_SIZE) - 30) + 1) % 251

\* a chunk of short matches, one after the other
DenseChunk ==
    <<2, 0, 0, 2, 0, 0, 0, 0, 0, 0, 2, 0, 0, 0, 2, 0, 0, 2, 2, 0,
      0, 0, 0, 0, 0, 0, 0, 0, 2, 0, 0, 0, 0, 0, 2, 0, 0, 2, 0, 0>>

ROLZ1Blocks ==
    {ROLZBlock(kind, count) : kind \in ROLZKinds, count \in ROLZ1Counts}
    \cup {[i \in 1..count |-> LongRunByte(i - 1)] : count \in ROLZ1Counts}
    \cup {DenseChunk \o ROLZBlock(kind, count - CHUNK_SIZE) :
              kind \in {0, 3}, count \in ROLZ1Counts}

\* what the ANS encoders make of one byte of the scratch buffers: nothing,
\* one byte, three bytes
ANSExpansions == {0, 1, 3}

\* what is read back from memory past a scratch buffer: the bytes written
\* there (-1), or the byte another owner stored
Clobbers == {-1, 0, 255}

ROLZ1Init ==
    /\ r1Phase = "start"
    /\ \E x \in ROLZ1Blocks :
         \E outLength \in ROLZOutLengths(Len(x)) :
            r1Block = [x |-> x, count |-> Len(x), outLength |-> outLength]
    /\ r1Fwd = NoROLZ1Fwd
    /\ r1Inv = NoROLZ1Inv

\* ROLZCodec1::forward
ROLZ1ForwardStep ==
    /\ r1Phase = "start"
    /\ \E expansion \in ANSExpansions, clobber \in Clobbers :
         LET f == ROLZ1Forward(r1Block.x, r1Block.count, r1Block.outLength,
                               [expansion |-> expansion, clobber |-> clobber])
         IN /\ r1Fwd' = f
            /\ r1Phase' = IF f.ok THEN "forward" ELSE "declined"
    /\ UNCHANGED <<r1Block, r1Inv, NotROLZ1>>

\* ROLZCodec1::inverse on what forward wrote
ROLZ1InverseStep ==
    /\ r1Phase = "forward"
    /\ \E clobber \in Clobbers :
         r1Inv' = ROLZ1Inverse(r1Fwd.chunks, r1Fwd.tail, r1Fwd.outIdx,
                               r1Block.count - 4, clobber)
    /\ r1Phase' = "inverse"
    /\ UNCHANGED <<r1Block, r1Fwd, NotROLZ1>>

ROLZ1Next == ROLZ1ForwardStep \/ ROLZ1InverseStep

\* Only ROLZ1 runs.
ROLZ1Alone == ROLZ1Init /\ CodecIdle /\ BWTIdle /\ EXEIdle /\ ROLZ2Idle /\ WrapIdle /\ ValidateIdle /\ AliasIdle

SpecROLZ1 == ROLZ1Alone /\ [][ROLZ1Next]_vars

-----------------------------------------------------------------------------
(*                          Claims on ROLZ1                                *)

\* C3: ROLZ1 round trip.  When forward returned true on a block of at least
\* MIN_BLOCK_SIZE bytes and inverse ran on what it wrote, inverse returned
\* true and dst holds exactly the block.
C3_ROLZ1RoundTrip ==
    (r1Phase = "inverse" /\ r1Block.count >= ROLZ_MIN_BLOCK_SIZE) =>
        /\ r1Inv.ok
        /\ r1Inv.dst = Cells(r1Block.x)


\* The input bytes whose encoding forward wrote to dst in full: the chunks
\* it copied from the bitstream to dst, and the 4 trailing bytes when it
\* emitted them.
FullyWritten(count, f) ==
    IF f.tail # <<>> THEN count
    ELSE Min(Len(f.chunks) * Min(count, CHUNK_SIZE), count - 4)

\* forward went past its first test and left because a chunk or the four
\* trailing bytes did not fit in dst (no scratch buffer overran)
ROLZ1DidNotFit ==
    /\ r1Phase = "declined"
    /\ r1Block.outLength >= ROLZMaxEncodedLength(r1Block.count)
    /\ r1Fwd.tail = <<>>
    /\ ~r1Fwd.fault

\* C13: ROLZ1 forward decline.  When the bytes of a chunk, or the 4 trailing
\* bytes, do not fit in the output buffer, forward returns false, has
\* written nothing past output._length, and input._index is the number of
\* input bytes whose encoding was written to dst in full.
C13_ROLZ1Decline ==
    ROLZ1DidNotFit =>
        /\ ~r1Fwd.ok
        /\ r1Fwd.outIdx <= r1Block.outLength
        /\ r1Fwd.inIdx = FullyWritten(r1Block.count, r1Fwd)


\* srcIdx after the first k chunks of a stream: 4 bytes of length, the
\* literal order, and the bytes of the chunks
RECURSIVE ChunkEnd(_, _)
ChunkEnd(chunks, k) == IF k = 0 THEN 5 ELSE ChunkEnd(chunks, k - 1) + chunks[k].size

\* The token a damaged chunk starts with: no literal and a match of 7 bytes
\* and more, 30 literals and a match of MIN_MATCH bytes.
CorruptTokens == {7, 240}

\* the stream with the damaged chunk k, handed to inverse with count bytes,
\* when probe (what inverse makes of it) fails a check in chunk k
ROLZ1Damaged(chunks, k, count, probe) ==
    /\ ~probe.success
    /\ probe.inIdx = ChunkEnd(chunks, k)
    /\ r1Fwd' = [r1Fwd EXCEPT !.chunks = chunks, !.outIdx = count]

\* A damaged stream: the first token of chunk k is not the one forward
\* wrote, and the stream is handed to inverse whole (count as forward left
\* it) or cut after chunk k.
ROLZ1Corrupt ==
    /\ r1Phase = "forward"
    /\ ~r1Fwd.fault
    /\ \E k \in 1..Len(r1Fwd.chunks), v \in CorruptTokens, cut \in BOOLEAN :
         ROLZ1Damaged([r1Fwd.chunks EXCEPT ![k].tk[1] = v], k,
                      IF cut THEN ChunkEnd(r1Fwd.chunks, k) ELSE r1Fwd.outIdx,
                      ROLZ1Inverse([r1Fwd.chunks EXCEPT ![k].tk[1] = v], r1Fwd.tail,
                                   IF cut THEN ChunkEnd(r1Fwd.chunks, k) ELSE r1Fwd.outIdx,
                                   r1Block.count - 4, -1))
    /\ r1Phase' = "damaged"
    /\ UNCHANGED <<r1Block, r1Inv, NotROLZ1>>

\* ROLZCodec1::inverse on a damaged stream
ROLZ1InverseBad ==
    /\ r1Phase = "damaged"
    /\ r1Inv' = ROLZ1Inverse(r1Fwd.chunks, r1Fwd.tail, r1Fwd.outIdx,
                             r1Block.count - 4, -1)
    /\ r1Phase' = "rejected"
    /\ UNCHANGED <<r1Block, r1Fwd, NotROLZ1>>

ROLZ1BadNext == ROLZ1Next \/ ROLZ1Corrupt \/ ROLZ1InverseBad

SpecROLZ1Bad == ROLZ1Alone /\ [][ROLZ1BadNext]_vars

\* C15: ROLZ1 corruption handling.  Whenever inverse finds a chunk header
\* length above the chunk size, a literal run past the end of the chunk or
\* a match with output._index + dstIdx + matchLen + MIN_MATCH > dstEnd
\* (success = false), it returns false, whatever count and srcIdx are, and
\* has not taken the 4 trailing bytes (srcIdx is at the end of a chunk).
C15_ROLZ1Corruption ==
    (r1Phase \in {"inverse", "rejected"} /\ ~r1Inv.success) =>
        /\ ~r1Inv.ok
        /\ \E k \in 0..Len(r1Fwd.chunks) : r1Inv.inIdx = ChunkEnd(r1Fwd.chunks, k)

-----------------------------------------------------------------------------
(*          ROLZ2: ROLZEncoder, ROLZDecoder and ROLZCodec2                 *)
(*                                                                         *)
(* encodeBit and decodeBit are in ROLZCodec.hpp, which is not part of the  *)
(* sources.  A coded symbol is kept with what the decoder needs to share   *)
(* with the encoder to get it back: the row of probabilities (_pIdx, _ctx) *)
(* it was coded with and the number of symbols that adapted this row since *)
(* the last reset.  A decoder that decodes with another row, or with a row *)
(* in another state, has left the encoder's arithmetic and reads a symbol  *)
(* the model does not know.                                                *)

LITERAL_FLAG == 0

MATCH_FLAG == 1

\* the encoder or decoder after its constructor: every probability PSCALE/2
NewCoder == [rows |-> <<>>, stream |-> <<>>, pIdx |-> LITERAL_FLAG, ctx |-> 0,
             k |-> 0, val |-> 0, inLock |-> TRUE]

setMode(rc, n) == [rc EXCEPT !.pIdx = n]

setContext(rc, ctx) == [rc EXCEPT !.ctx = ctx]

\* the row of _probs[_pIdx] the next bits are coded with
RowOf(rc) == rc.pIdx * 256 + rc.ctx

\* ROLZEncoder::reset
EncoderReset(re) == [re EXCEPT !.rows = <<>>]

\* ROLZEncoder::encodeBits: n calls of encodeBit under the current row
encodeBits(re, val, n) ==
    LET row == RowOf(re)
        age == Lookup(re.rows, row, 0)
    IN [re EXCEPT !.rows = Store(@, row, age + 1),
                  !.stream = Append(@, [val |-> val, n |-> n, row |-> row, age |-> age])]

\* ROLZEncoder::encode9Bits
encode9Bits(re, val) == encodeBits(re, val, 9)

\* ROLZDecoder::reset
DecoderReset(rd) == [rd EXCEPT !.rows = <<>>]

\* ROLZDecoder::decodeBits: the k-th symbol of the stream if the decoder is
\* where the encoder was when it coded it, the unknown symbol g otherwise
decodeBits(rd, stream, n, g) ==
    LET row == RowOf(rd)
        age == Lookup(rd.rows, row, 0)
        inLock == /\ rd.inLock
                  /\ rd.k < Len(stream)
                  /\ stream[rd.k + 1].row = row
                  /\ stream[rd.k + 1].n = n
                  /\ stream[rd.k + 1].age = age
    IN [rd EXCEPT !.rows = Store(@, row, age + 1),
                  !.k = @ + 1,
                  !.inLock = inLock,
                  !.val = IF inLock THEN stream[rd.k + 1].val ELSE g]

\* ROLZDecoder::decode9Bits
decode9Bits(rd, stream, g) == decodeBits(rd, stream, 9, g.sym)

\* ROLZCodec2::forward, what one turn of the loop codes for the match
\* findMatch returned; re1 is the encoder with the context set
ROLZ2Emit(x, startChunk, st, re1, m) ==
    IF m.match < 0
    THEN [srcIdx |-> st.srcIdx + 1, counters |-> m.counters, matches |-> m.matches,
          re |-> encode9Bits(re1, LITERAL_FLAG * 256 + At(x, startChunk + st.srcIdx))]
    ELSE [srcIdx |-> st.srcIdx + (m.match % 65536) + MIN_MATCH,
          counters |-> m.counters, matches |-> m.matches,
          re |-> setMode(encodeBits(setContext(setMode(encode9Bits(re1,
                                        MATCH_FLAG * 256 + (m.match % 65536)),
                                    MATCH_FLAG), At(x, startChunk + st.srcIdx - 1)),
                                    m.match \div 65536, LOG_POS_CHECKS),
                         LITERAL_FLAG)]

\* ROLZCodec2::forward, one turn of the loop over the positions of a chunk
ROLZ2ForwardAt(x, startChunk, sizeChunk, st) ==
    ROLZ2Emit(x, startChunk, st,
              setContext(st.re, At(x, startChunk + st.srcIdx - 1)),
              ROLZCodec2FindMatch(x, startChunk, st.srcIdx, sizeChunk,
                                  st.counters, st.matches))

\* ROLZCodec2::forward, the loop over the positions of one chunk
RECURSIVE ROLZ2ForwardLoop(_, _, _, _)
ROLZ2ForwardLoop(x, startChunk, sizeChunk, st) ==
    IF st.srcIdx >= sizeChunk THEN st
    ELSE ROLZ2ForwardLoop(x, startChunk, sizeChunk,
                          ROLZ2ForwardAt(x, startChunk, sizeChunk, st))

\* ROLZCodec2::forward, the end of one turn of the loop over the chunks,
\* body being what the loop over the positions left
ROLZ2ForwardNext(st, endChunk, body) ==
    [startChunk |-> endChunk, sizeChunk |-> endChunk - st.startChunk,
     srcIdx |-> body.srcIdx, counters |-> body.counters, re |-> body.re,
     resets |-> st.resets \cup {Len(st.re.stream)},
     entry |-> Append(st.entry, NonZero(st.counters)),
     exit |-> Append(st.exit, Tables(body))]

\* ROLZCodec2::forward, the first literals of a chunk, coded by re1 after
\* its reset, and the loop over the positions
ROLZ2ForwardChunk(x, srcEnd, sizeChunk, st, re1) ==
    LET two == st.startChunk + 1 < srcEnd
    IN ROLZ2ForwardLoop(x, st.startChunk, sizeChunk,
           [srcIdx |-> IF two THEN 2 ELSE 1, counters |-> st.counters,
            matches |-> <<>>,
            re |-> IF two THEN encode9Bits(re1, LITERAL_FLAG * 256 + At(x, st.startChunk + 1))
                   ELSE re1])

\* ROLZCodec2::forward, one turn of the loop over the chunks
ROLZ2ForwardTurn(x, srcEnd, st) ==
    LET endChunk == Min(st.startChunk + st.sizeChunk, srcEnd)
    IN ROLZ2ForwardNext(st, endChunk,
           ROLZ2ForwardChunk(x, srcEnd, endChunk - st.startChunk, st,
               encode9Bits(setContext(setMode(EncoderReset(st.re), LITERAL_FLAG), 0),
                           LITERAL_FLAG * 256 + At(x, st.startChunk))))

\* ROLZCodec2::forward, the loop over the chunks of [0, srcEnd)
RECURSIVE ROLZ2ForwardChunks(_, _, _)
ROLZ2ForwardChunks(x, srcEnd, st) ==
    IF st.startChunk >= srcEnd THEN st
    ELSE ROLZ2ForwardChunks(x, srcEnd, ROLZ2ForwardTurn(x, srcEnd, st))

\* ROLZCodec2::forward, "Emit last literals": src still points at the last chunk
RECURSIVE ROLZ2LastLiterals(_, _, _, _, _)
ROLZ2LastLiterals(x, base, srcIdx, re, i) ==
    IF i >= 4 THEN [re |-> re, srcIdx |-> srcIdx]
    ELSE ROLZ2LastLiterals(x, base, srcIdx + 1,
             encode9Bits(setContext(re, At(x, base + srcIdx - 1)),
                         LITERAL_FLAG * 256 + At(x, base + srcIdx)),
             i + 1)

\* ROLZCodec2::forward, the indexes it returns with; last is what "Emit
\* last literals" left
ROLZ2ForwardEnd(count, coded, st, last) ==
    LET dstIdx == 4 + coded + 8
        inIdx == st.startChunk - st.sizeChunk + last.srcIdx
    IN [ok |-> (inIdx = count) /\ (dstIdx < count), inIdx |-> inIdx, outIdx |-> dstIdx,
        stream |-> last.re.stream, resets |-> st.resets, entry |-> st.entry,
        exit |-> st.exit]

\* ROLZCodec2::forward after the loop over the chunks
ROLZ2ForwardLast(x, count, coded, st) ==
    ROLZ2ForwardEnd(count, coded, st,
        ROLZ2LastLiterals(x, st.startChunk - st.sizeChunk, st.srcIdx,
                          setMode(st.re, LITERAL_FLAG), 0))

\* ROLZCodec2::forward.  coded is the number of bytes encodeBit wrote
\* before dispose added its eight.
ROLZ2Forward(x, count, outLength, coded) ==
    IF outLength < ROLZMaxEncodedLength(count)
    THEN NoROLZ2Fwd
    ELSE ROLZ2ForwardLast(x, count, coded,
             ROLZ2ForwardChunks(x, count - 4,
                 [startChunk |-> 0, sizeChunk |-> Min(count, CHUNK_SIZE), srcIdx |-> 0,
                  counters |-> <<>>, re |-> NewCoder, resets |-> {}, entry |-> <<>>,
                  exit |-> <<>>]))

\* ROLZCodec2::inverse, one turn of the loop over the positions of a chunk;
\* dst[0] of the code is cell base.  A failed sanity check adds dstIdx to
\* output._index and breaks out of this loop only.
ROLZ2InverseAt(stream, dstEnd, g, base, st) ==
    LET savedIdx == st.dstIdx
        key == getKey(DstAt(st.dst, base + st.dstIdx - 2), DstAt(st.dst, base + st.dstIdx - 1))
        ring == Lookup(st.matches, key, ZeroRing)
        prev == DstAt(st.dst, base + st.dstIdx - 1)
        rd1 == decode9Bits(setContext(setMode(st.rd, LITERAL_FLAG), prev), stream, g)
        counter == Lookup(st.counters, key, 0) + 1
        counters == Store(st.counters, key, counter)
        matches == Store(st.matches, key, [ring EXCEPT ![counter % posChecks] = savedIdx])
    IN IF rd1.val \div 256 = LITERAL_FLAG
       THEN [dstIdx |-> st.dstIdx + 1, counters |-> counters, matches |-> matches,
             rd |-> rd1, dst |-> Store(st.dst, base + st.dstIdx, rd1.val % 256),
             broke |-> FALSE]
       ELSE LET matchLen == rd1.val % 256
            IN IF st.dstIdx + matchLen + 3 > dstEnd
               THEN [st EXCEPT !.rd = rd1, !.broke = TRUE]
               ELSE LET rd2 == decodeBits(setContext(setMode(rd1, MATCH_FLAG), prev),
                                          stream, LOG_POS_CHECKS, g.idx)
                        ref == ring[(counter - 1 - rd2.val) % posChecks]
                        copy == emitCopy(st.dst, base, st.dstIdx, ref, matchLen)
                    IN [dstIdx |-> copy.dstIdx, counters |-> counters,
                        matches |-> matches, rd |-> rd2, dst |-> copy.dst,
                        broke |-> FALSE]

\* ROLZCodec2::inverse, the loop over the positions of one chunk
RECURSIVE ROLZ2InverseLoop(_, _, _, _, _, _)
ROLZ2InverseLoop(stream, dstEnd, g, base, sizeChunk, st) ==
    IF st.dstIdx >= sizeChunk \/ st.broke THEN st
    ELSE ROLZ2InverseLoop(stream, dstEnd, g, base, sizeChunk,
                          ROLZ2InverseAt(stream, dstEnd, g, base, st))

\* ROLZCodec2::inverse, the end of one turn of the loop over the chunks,
\* body being what the loop over the positions left
ROLZ2InverseNext(st, endChunk, body) ==
    [startChunk |-> endChunk, sizeChunk |-> endChunk - st.startChunk,
     outIndex |-> st.outIndex + body.dstIdx + (IF body.broke THEN body.dstIdx ELSE 0),
     counters |-> body.counters, rd |-> body.rd, dst |-> body.dst,
     resets |-> st.resets \cup {st.rd.k}, stop |-> FALSE,
     caught |-> IF body.broke THEN Append(st.caught, st.outIndex + body.dstIdx)
                ELSE st.caught,
     entry |-> Append(st.entry, NonZero(st.counters)),
     exit |-> Append(st.exit, Tables(body))]

\* ROLZCodec2::inverse, the second symbol of a chunk, left in rd2: the
\* sanity check, the literal and the loop over the positions
ROLZ2SecondLiteral(stream, dstEnd, g, st, endChunk, dst1, rd2) ==
    IF rd2.val \div 256 = MATCH_FLAG
    THEN [st EXCEPT !.stop = TRUE, !.rd = rd2, !.resets = @ \cup {st.rd.k},
                    !.dst = dst1, !.sizeChunk = endChunk - st.startChunk,
                    !.outIndex = @ + 1, !.caught = Append(@, st.outIndex + 1),
                    !.entry = Append(@, NonZero(st.counters))]
    ELSE ROLZ2InverseNext(st, endChunk,
             ROLZ2InverseLoop(stream, dstEnd, g, st.outIndex, endChunk - st.startChunk,
                 [dstIdx |-> 2, counters |-> st.counters, matches |-> <<>>, rd |-> rd2,
                  dst |-> Store(dst1, st.outIndex + 1, rd2.val % 256),
                  broke |-> FALSE]))

\* ROLZCodec2::inverse, "First literals": the first symbol of a chunk, left
\* in rd1 by the decoder after its reset
ROLZ2FirstLiteral(stream, dstEnd, g, st, endChunk, rd1) ==
    IF rd1.val \div 256 = MATCH_FLAG
    THEN [st EXCEPT !.stop = TRUE, !.rd = rd1, !.resets = @ \cup {st.rd.k},
                    !.sizeChunk = endChunk - st.startChunk,
                    !.caught = Append(@, st.outIndex),
                    !.entry = Append(@, NonZero(st.counters))]
    ELSE IF st.outIndex + 1 < dstEnd
    THEN ROLZ2SecondLiteral(stream, dstEnd, g, st, endChunk,
                            Store(st.dst, st.outIndex, rd1.val % 256),
                            decode9Bits(rd1, stream, g))
    ELSE ROLZ2InverseNext(st, endChunk,
             ROLZ2InverseLoop(stream, dstEnd, g, st.outIndex, endChunk - st.startChunk,
                 [dstIdx |-> 1, counters |-> st.counters, matches |-> <<>>, rd |-> rd1,
                  dst |-> Store(st.dst, st.outIndex, rd1.val % 256),
                  broke |-> FALSE]))

\* ROLZCodec2::inverse, one turn of the loop over the chunks
ROLZ2InverseTurn(stream, dstEnd, g, st) ==
    ROLZ2FirstLiteral(stream, dstEnd, g, st, Min(st.startChunk + st.sizeChunk, dstEnd),
        decode9Bits(setContext(setMode(DecoderReset(st.rd), LITERAL_FLAG), 0), stream, g))

\* ROLZCodec2::inverse, the loop over the chunks of [0, dstEnd)
RECURSIVE ROLZ2InverseChunks(_, _, _, _)
ROLZ2InverseChunks(stream, dstEnd, g, st) ==
    IF st.startChunk >= dstEnd \/ st.stop THEN st
    ELSE ROLZ2InverseChunks(stream, dstEnd, g, ROLZ2InverseTurn(stream, dstEnd, g, st))

\* ROLZCodec2::inverse after the loop over the chunks: it returns
\* srcIdx == count, true when the decoder followed the encoder to the last
\* symbol, consumedAll otherwise; caught are the block positions at which a
\* sanity check failed, in the order of the failures
ROLZ2InverseEnd(stream, consumedAll, st) ==
    [ok |-> (st.rd.inLock /\ st.rd.k = Len(stream)) \/ consumedAll,
     symbols |-> st.rd.k, outIdx |-> st.outIndex,
     resets |-> st.resets, dst |-> st.dst, inLock |-> st.rd.inLock,
     caught |-> st.caught, entry |-> st.entry, exit |-> st.exit]

\* ROLZCodec2::inverse on the symbols forward coded for a block of dstEnd
\* bytes
ROLZ2Inverse(stream, dstEnd, g, consumedAll) ==
    ROLZ2InverseEnd(stream, consumedAll,
        ROLZ2InverseChunks(stream, dstEnd, g,
            [startChunk |-> 0, sizeChunk |-> Min(dstEnd, CHUNK_SIZE), outIndex |-> 0,
             counters |-> <<>>, rd |-> NewCoder, dst |-> <<>>, resets |-> {},
             stop |-> FALSE, caught |-> <<>>, entry |-> <<>>, exit |-> <<>>]))

\* The blocks ROLZ2 is run on: lengths below, at and beyond one and two
\* chunks, and on each side of the last four bytes of a chunk.
ROLZ2Counts == {13, 20, 39, 40, 41, 43, 44, 45, 46, 47, 60, 80, 83, 84, 85, 86, 90}

\* the bytes encodeBit may have written for a block: none, or as many as
\* there are bytes in the block
ROLZ2CodedSizes(count) == {0, count}

\* what a decoder that left the encoder's arithmetic may read: a literal,
\* another literal, a match of MIN_MATCH bytes, a match of the longest length
UnknownSymbols ==
    {[sym |-> 0, idx |-> 0], [sym |-> 255, idx |-> 0], [sym |-> 256, idx |-> 1],
     [sym |-> 511, idx |-> 0]}

ROLZ2Init ==
    /\ r2Phase = "start"
    /\ \E kind \in ROLZKinds, count \in ROLZ2Counts :
         \E outLength \in ROLZOutLengths(count) :
            r2Block = [x |-> ROLZBlock(kind, count), count |-> count, outLength |-> outLength]
    /\ r2Fwd = NoROLZ2Fwd
    /\ r2Inv = NoROLZ2Inv

\* ROLZCodec2::forward
ROLZ2ForwardStep ==
    /\ r2Phase = "start"
    /\ \E coded \in ROLZ2CodedSizes(r2Block.count) :
         LET f == ROLZ2Forward(r2Block.x, r2Block.count, r2Block.outLength, coded)
         IN /\ r2Fwd' = f
            /\ r2Phase' = IF f.ok THEN "forward" ELSE "declined"
    /\ UNCHANGED <<r2Block, r2Inv, NotROLZ2>>

\* ROLZCodec2::inverse on what forward wrote
ROLZ2InverseStep ==
    /\ r2Phase = "forward"
    /\ \E g \in UnknownSymbols, consumedAll \in BOOLEAN :
         r2Inv' = ROLZ2Inverse(r2Fwd.stream, r2Block.count, g, consumedAll)
    /\ r2Phase' = "inverse"
    /\ UNCHANGED <<r2Block, r2Fwd, NotROLZ2>>

ROLZ2Next == ROLZ2ForwardStep \/ ROLZ2InverseStep

\* Only ROLZ2 runs.
ROLZ2Alone == ROLZ2Init /\ CodecIdle /\ BWTIdle /\ EXEIdle /\ ROLZ1Idle /\ WrapIdle /\ ValidateIdle /\ AliasIdle

SpecROLZ2 == ROLZ2Alone /\ [][ROLZ2Next]_vars

-----------------------------------------------------------------------------
(*                          Claims on ROLZ2                                *)

\* C4: ROLZ2 round trip.  When forward returned true and inverse ran on what
\* it coded, dst holds exactly the block, and the decoder reset its
\* probabilities and the match table before the same symbols as the encoder.
C4_ROLZ2RoundTrip ==
    r2Phase = "inverse" =>
        /\ r2Inv.dst = Cells(r2Block.x)
        /\ r2Inv.resets = r2Fwd.resets


\* The symbols of the stream at which it may be damaged between forward and
\* inverse: the first and the second symbol of the first chunk, symbols
\* inside it.
CorruptAt == {1, 2, 3, 6, 12}

\* A damaged stream: from symbol j on, the bytes are not those the encoder
\* wrote, and the decoder leaves the encoder's arithmetic there.
ROLZ2Corrupt ==
    /\ r2Phase = "forward"
    /\ \A k \in 1..Len(r2Fwd.stream) : r2Fwd.stream[k].row >= 0
    /\ \E j \in CorruptAt \cap (1..Len(r2Fwd.stream)) :
         r2Fwd' = [r2Fwd EXCEPT !.stream[j].row = -1]
    /\ UNCHANGED <<r2Phase, r2Block, r2Inv, NotROLZ2>>

ROLZ2BadNext == ROLZ2Next \/ ROLZ2Corrupt

SpecROLZ2Bad == ROLZ2Alone /\ [][ROLZ2BadNext]_vars

\* C14: ROLZ2 decoder sanity.  Whenever inverse decodes a MATCH_FLAG symbol
\* as the first or second symbol of a chunk, or a match with
\* dstIdx + matchLen + MIN_MATCH > dstEnd, it stops decoding the block (no
\* second check fails later), leaves output._index at the block position it
\* had reached when the check failed, and returns false.
C14_ROLZ2Sanity ==
    (r2Phase = "inverse" /\ r2Inv.caught # <<>>) =>
        /\ Len(r2Inv.caught) = 1
        /\ r2Inv.outIdx = r2Inv.caught[1]
        /\ ~r2Inv.ok

(*                     Claims on the ROLZ tables                           *)

\* C21: per-chunk reset.  At the start of every chunk of a block, in the
\* forward and the inverse transform of ROLZ1 and ROLZ2, the counters table
\* is all zero (no key has a counter other than zero); the matches table
\* is cleared in the body of the loop over the chunks.
C21_PerChunkReset ==
    /\ \A i \in DOMAIN r1Fwd.entry : r1Fwd.entry[i] = {}
    /\ \A i \in DOMAIN r1Inv.entry : r1Inv.entry[i] = {}
    /\ \A i \in DOMAIN r2Fwd.entry : r2Fwd.entry[i] = {}
    /\ \A i \in DOMAIN r2Inv.entry : r2Inv.entry[i] = {}

\* The matches forward emitted: the calls of findMatch that returned one,
\* as (chunk, call) pairs of r1Fwd.calls
EmittedMatches ==
    {p \in UNION {{<<c, j>> : j \in DOMAIN r1Fwd.calls[c]} : c \in DOMAIN r1Fwd.calls} :
        r1Fwd.calls[p[1]][p[2]].match >= 0}

\* the size of chunk c (1, 2, ...) of a block of count bytes
SizeOfChunk(count, c) == Min(CHUNK_SIZE, (count - 4) - (c - 1) * CHUNK_SIZE)

\* the slot of the ring the match m refers to by its distance
SlotOf(m) == m.ring[(m.counter - (m.match \div 65536)) % posChecks]

\* the length of the match m
LengthOf(m) == (m.match % 65536) + MIN_MATCH

\* the position m refers to was registered by an earlier call of the chunk
RegisteredBefore(c, j) ==
    \E i \in 1..(j - 1) : r1Fwd.calls[c][i].pos = PosOf(SlotOf(r1Fwd.calls[c][j]))

\* C22: no match crosses a chunk boundary.  Every match ROLZ1 forward emits
\* at the position pos of a chunk, of length L, has pos + L <= the size of
\* the chunk, and refers to a position of the same chunk below pos: one
\* registered earlier in this chunk, or the zero of a cleared slot.
C22_MatchInChunk ==
    \A p \in EmittedMatches :
        LET m == r1Fwd.calls[p[1]][p[2]]
        IN /\ m.pos + LengthOf(m) <= SizeOfChunk(r1Block.count, p[1])
           /\ PosOf(SlotOf(m)) >= 0
           /\ PosOf(SlotOf(m)) < m.pos
           /\ SlotOf(m) = 0 \/ RegisteredBefore(p[1], p[2])

\* forward emitted a match that ends with its chunk and refers to a
\* registered position, and a match that refers to a cleared slot
C22_Witness ==
    /\ \E p \in EmittedMatches :
         LET m == r1Fwd.calls[p[1]][p[2]]
         IN /\ m.pos + LengthOf(m) = SizeOfChunk(r1Block.count, p[1])
            /\ SlotOf(m) # 0
            /\ p[1] > 1
    /\ \E p \in EmittedMatches : SlotOf(r1Fwd.calls[p[1]][p[2]]) = 0

\* The counters t.counters are ring indexes, and the counter of a key that
\* was registered since _matches was cleared is the index of the slot
\* written last: the slot of the ring with the highest position.
CountersInRing(t) ==
    /\ \A k \in DOMAIN t.counters : t.counters[k] \in 0..(posChecks - 1)
    /\ \A k \in DOMAIN t.matches :
         \A i \in 0..(posChecks - 1) :
             PosOf(t.matches[k][i]) <= PosOf(t.matches[k][t.counters[k]])

\* C23: counter range.  After the registrations of ROLZ1 and ROLZ2 forward
\* and inverse on a chunk, every entry of counters is in [0, posChecks) and
\* is the ring index of the slot the most recent registration under its key
\* wrote.
C23_CounterRange ==
    /\ \A c \in DOMAIN r1Fwd.exit : CountersInRing(r1Fwd.exit[c])
    /\ \A c \in DOMAIN r1Inv.exit : CountersInRing(r1Inv.exit[c])
    /\ \A c \in DOMAIN r2Fwd.exit : CountersInRing(r2Fwd.exit[c])
    /\ \A c \in DOMAIN r2Inv.exit : CountersInRing(r2Inv.exit[c])

\* the chunks both forward and inverse of ROLZ1 went through to their end
ChunksOfBoth == DOMAIN r1Fwd.exit \cap DOMAIN r1Inv.exit

\* C24: lock-step of the tables in ROLZ1.  After the encoder has processed
\* a chunk and the decoder has reconstructed it, the counters and matches of
\* the decoder are those of the encoder: the same counter for every key and
\* the same 32-bit value in every slot of every ring.
C24_TablesLockStep ==
    r1Phase = "inverse" =>
        \A c \in ChunksOfBoth :
            /\ r1Inv.exit[c].counters = r1Fwd.exit[c].counters
            /\ r1Inv.exit[c].matches = r1Fwd.exit[c].matches

\* the number of bytes, up to max, that the block x has in common from a
\* and from b on
RECURSIVE CommonLength(_, _, _, _, _)
CommonLength(x, a, b, n, max) ==
    IF n < max /\ At(x, a + n) = At(x, b + n)
    THEN CommonLength(x, a, b, n + 1, max)
    ELSE n

\* The registrations under the key of the call m that findMatch compares,
\* by their distance from the counter: the slots of the ring that hold a
\* position registered with the content hash of pos (a cleared slot holds
\* no registration).
Registrations(m) ==
    {d \in 0..(posChecks - 1) :
        LET slot == m.ring[(m.counter - d) % posChecks]
        IN slot # 0 /\ HashOf(slot) = m.hash32}

\* the length of the match of the call m of chunk c with the registration
\* at distance d
LengthAt(c, m, d) ==
    CommonLength(r1Block.x,
                 (c - 1) * CHUNK_SIZE + PosOf(m.ring[(m.counter - d) % posChecks]),
                 (c - 1) * CHUNK_SIZE + m.pos, 0, Min(MAX_MATCH1, m.end - m.pos))

\* the longest match among the registrations, the most recent of the
\* longest ones, packed as findMatch returns it
LongestMatch(c, m) ==
    IF \A d \in Registrations(m) : LengthAt(c, m, d) < MIN_MATCH
    THEN -1
    ELSE LET best == CHOOSE d \in Registrations(m) :
                         \A e \in Registrations(m) :
                             \/ LengthAt(c, m, e) < LengthAt(c, m, d)
                             \/ LengthAt(c, m, e) = LengthAt(c, m, d) /\ d <= e
         IN best * 65536 + (LengthAt(c, m, best) - MIN_MATCH)

\* the call m wrote pos in one slot of the ring of its key, the slot its
\* counter then points to, and nothing else in the ring
RegisteredOnce(m) ==
    /\ m.counters[m.key] \in 0..(posChecks - 1)
    /\ PosOf(m.matches[m.key][m.counters[m.key]]) = m.pos
    /\ \A i \in 0..(posChecks - 1) :
           i # m.counters[m.key] => m.matches[m.key][i] = m.ring[i]

\* C25: the result of findMatch.  Among the posChecks most recent
\* registrations under the key it selects the longest match of at most
\* min(MAX_MATCH, end - pos) bytes, the most recently registered of the
\* longest ones; it returns -1 when that length is below MIN_MATCH, else
\* (distance << 16) | (length - MIN_MATCH); pos is registered exactly once.
C25_FindMatchResult ==
    \A c \in DOMAIN r1Fwd.calls : \A j \in DOMAIN r1Fwd.calls[c] :
        /\ r1Fwd.calls[c][j].match = LongestMatch(c, r1Fwd.calls[c][j])
        /\ RegisteredOnce(r1Fwd.calls[c][j])

\* sizeChunk when forward and inverse allocate the scratch buffers
AllocatedChunk(count) == Min(count, CHUNK_SIZE)

\* C29: ROLZ1 forward scratch bounds.  For every chunk forward wrote, the
\* bytes it put in tkBuf and in mIdxBuf are at most sizeChunk / 4 and the
\* bytes it put in lenBuf at most sizeChunk / 5, the capacities of the
\* buffers.
C29_ForwardScratch ==
    \A c \in DOMAIN r1Fwd.chunks :
        /\ Len(r1Fwd.chunks[c].tk) <= AllocatedChunk(r1Block.count) \div 4
        /\ Len(r1Fwd.chunks[c].mIdx) <= AllocatedChunk(r1Block.count) \div 4
        /\ Len(r1Fwd.chunks[c].len) <= AllocatedChunk(r1Block.count) \div 5

\* C30: ROLZ1 inverse scratch bounds.  For every chunk whose header inverse
\* accepted, tkLen, mLenLen and mIdxLen are at most the capacities of the
\* buffers they are decoded into (sizeChunk / 4, sizeChunk / 5,
\* sizeChunk / 4), and the replay of the tokens read no more of litBuf,
\* tkBuf, lenBuf and mIdxBuf than the header announced.
C30_InverseScratch ==
    r1Phase = "inverse" =>
        \A c \in DOMAIN r1Inv.exit :
            /\ Len(r1Fwd.chunks[c].tk) <= AllocatedChunk(r1Block.count - 4) \div 4
            /\ Len(r1Fwd.chunks[c].len) <= AllocatedChunk(r1Block.count - 4) \div 5
            /\ Len(r1Fwd.chunks[c].mIdx) <= AllocatedChunk(r1Block.count - 4) \div 4
            /\ r1Inv.exit[c].litIdx <= Len(r1Fwd.chunks[c].lit)
            /\ r1Inv.exit[c].tkIdx <= Len(r1Fwd.chunks[c].tk)
            /\ r1Inv.exit[c].lenIdx <= Len(r1Fwd.chunks[c].len)
            /\ r1Inv.exit[c].mIdxIdx <= Len(r1Fwd.chunks[c].mIdx)

-----------------------------------------------------------------------------
(*                  ROLZCodec (C++): the entry points                      *)
(*                                                                         *)
(* ROLZCodec::forward tests its arguments and hands the block to the       *)
(* delegate (ROLZCodec1 or ROLZCodec2, modelled above).  A call is kept by *)
(* what the tests read: count, the validity of the two views and whether   *)
(* both views are on the same array.  ROLZCodec.hpp is not part of the     *)
(* sources.                                                                *)

\* ROLZCodec::MAX_BLOCK_SIZE, 1 GB
ROLZ_MAX_BLOCK_SIZE == Shl(1, 30)

\* The counts of the calls: around 0, MIN_BLOCK_SIZE and MAX_BLOCK_SIZE.
WrapCounts ==
    {0, 1, 2, ROLZ_MIN_BLOCK_SIZE - 1, ROLZ_MIN_BLOCK_SIZE, ROLZ_MIN_BLOCK_SIZE + 1,
     4096, ROLZ_MAX_BLOCK_SIZE - 1, ROLZ_MAX_BLOCK_SIZE, ROLZ_MAX_BLOCK_SIZE + 1,
     ROLZ_MAX_BLOCK_SIZE + 2, ROLZ_MAX_BLOCK_SIZE - 1 + ROLZ_MAX_BLOCK_SIZE}

WrapCalls ==
    [count : WrapCounts, validInput : BOOLEAN, validOutput : BOOLEAN, sameArray : BOOLEAN]

Returned(ok) == [returned |-> TRUE, thrown |-> FALSE, ok |-> ok, delegated |-> FALSE]

Thrown == [returned |-> FALSE, thrown |-> TRUE, ok |-> FALSE, delegated |-> FALSE]

Delegated(ok) == [returned |-> TRUE, thrown |-> FALSE, ok |-> ok, delegated |-> TRUE]

\* ROLZCodec::forward; delegateOk is what _delegate->forward returns.
ROLZCodecForward(call, delegateOk) ==
    IF call.count = 0 THEN Returned(TRUE)
    ELSE IF call.count < ROLZ_MIN_BLOCK_SIZE THEN Returned(FALSE)
    ELSE IF ~call.validInput THEN Thrown
    ELSE IF ~call.validOutput THEN Thrown
    ELSE IF call.sameArray THEN Returned(FALSE)
    ELSE IF call.count > ROLZ_MAX_BLOCK_SIZE THEN Thrown
    ELSE Delegated(delegateOk)

WrapInit ==
    /\ wPhase = "start"
    /\ wCall \in WrapCalls
    /\ wRet = NoWrapRet

WrapForward ==
    /\ wPhase = "start"
    /\ \E delegateOk \in BOOLEAN : wRet' = ROLZCodecForward(wCall, delegateOk)
    /\ wPhase' = "done"
    /\ UNCHANGED <<wCall, NotWrap>>

WrapNext == WrapForward

WrapAlone == WrapInit /\ CodecIdle /\ BWTIdle /\ EXEIdle /\ ROLZ1Idle /\ ROLZ2Idle /\ ValidateIdle /\ AliasIdle

SpecROLZ == WrapAlone /\ [][WrapNext]_vars

\* C12: the block-size limits of ROLZCodec::forward.  For every call with
\* valid views: count = 0 returns true, and the call reaches no delegate, so
\* nothing is written; 0 < count < MIN_BLOCK_SIZE returns false; and every
\* count > MAX_BLOCK_SIZE raises invalid_argument, never a plain false,
\* whether or not the two views are on the same array.
C12_BlockSizeLimits ==
    (wPhase = "done" /\ wCall.validInput /\ wCall.validOutput) =>
        /\ wCall.count = 0 => (wRet.returned /\ wRet.ok /\ ~wRet.delegated)
        /\ (0 < wCall.count /\ wCall.count < ROLZ_MIN_BLOCK_SIZE) =>
               (wRet.returned /\ ~wRet.ok /\ ~wRet.delegated)
        /\ wCall.count > ROLZ_MAX_BLOCK_SIZE => wRet.thrown

-----------------------------------------------------------------------------
(*                 UTFCodec (C++): the UTF-8 validator                     *)
(*                                                                         *)
(* validate fills the histogram freqs0 of the bytes and the histogram      *)
(* freqs of the pairs (previous byte, byte), the byte before the first one *)
(* being 0, and then tests them.  The tests read whether a count is zero   *)
(* and the sum of the counts of 80..BF: the histograms are kept as the set *)
(* of the bytes present, the set of the bytes that follow a given byte,    *)
(* and the number of positions that hold a byte of 80..BF.                 *)

\* longest block handed to validate
MaxUTFLen == 4

\* The bytes of the blocks: an ASCII letter, the ends of the ranges of
\* second bytes the validator tests, a forbidden byte of each kind, the
\* four lead bytes with a restricted second byte.
UTFBytes == {65, 128, 143, 144, 159, 160, 191, 192, 224, 237, 240, 244, 245}

RECURSIVE UTFBlocks(_)
UTFBlocks(n) ==
    IF n = 0 THEN {<<>>}
    ELSE UTFBlocks(n - 1) \cup
         {Append(b, c) : b \in {s \in UTFBlocks(n - 1) : Len(s) = n - 1}, c \in UTFBytes}

\* freqs0[i] > 0
Present(data, count) == {data[k] : k \in 1..count}

\* prv when data[k - 1] of the code, position k of the sequence, is read
Prv(data, k) == IF k = 1 THEN 0 ELSE data[k - 1]

\* the i with freqs[p][i] > 0
Followers(data, count, p) == {data[k] : k \in {j \in 1..count : Prv(data, j) = p}}

\* sum: the freqs0[i] of the i in 80..BF
NonPrimary(data, count) == Cardinality({k \in 1..count : data[k] >= 128 /\ data[k] <= 191})

\* UTFCodec::validate, the loop over i of the four exclusions
ExcludedPair(data, count) ==
    \/ \E i \in Followers(data, count, 224) : i < 160 \/ i > 191
    \/ \E i \in Followers(data, count, 237) : i < 128 \/ i > 159
    \/ \E i \in Followers(data, count, 240) : i < 144 \/ i > 191
    \/ \E i \in Followers(data, count, 244) : i < 128 \/ i > 191

\* UTFCodec::validate
validate(block, count) ==
    IF 192 \in Present(block, count) \/ 193 \in Present(block, count) THEN FALSE
    ELSE IF \E i \in 245..255 : i \in Present(block, count) THEN FALSE
    ELSE IF ExcludedPair(block, count) THEN FALSE
    ELSE NonPrimary(block, count) >= count \div 4

ValidateInit ==
    /\ vPhase = "start"
    /\ vBlock \in UTFBlocks(MaxUTFLen)
    /\ vRet = FALSE

ValidateRun ==
    /\ vPhase = "start"
    /\ vRet' = validate(vBlock, Len(vBlock))
    /\ vPhase' = "done"
    /\ UNCHANGED <<vBlock, NotValidate>>

ValidateNext == ValidateRun

ValidateAlone ==
    ValidateInit /\ CodecIdle /\ BWTIdle /\ EXEIdle /\ ROLZ1Idle /\ ROLZ2Idle /\ WrapIdle /\ AliasIdle

SpecValidate == ValidateAlone /\ [][ValidateNext]_vars

\* a byte pair a b of the block with b outside lo..hi
BadPair(data, a, lo, hi) ==
    \E k \in 1..(Len(data) - 1) : data[k] = a /\ (data[k + 1] < lo \/ data[k + 1] > hi)

\* C16: the UTF-8 validator.  validate returns false for every block with a
\* byte C0, C1 or F5..FF, with a byte pair E0 b, b outside A0..BF, ED b, b
\* outside 80..9F, F0 b, b outside 90..BF, or F4 b, b outside 80..8F, or
\* with fewer than 25% of its bytes in 80..BF; it returns true otherwise.
C16_Validate ==
    vPhase = "done" =>
        (vRet <=>
            ~ \/ \E k \in 1..Len(vBlock) : vBlock[k] \in {192, 193} \cup (245..255)
              \/ BadPair(vBlock, 224, 160, 191)
              \/ BadPair(vBlock, 237, 128, 159)
              \/ BadPair(vBlock, 240, 144, 191)
              \/ BadPair(vBlock, 244, 128, 143)
              \/ 4 * NonPrimary(vBlock, Len(vBlock)) < Len(vBlock))

-----------------------------------------------------------------------------
(*                  UTFCodec (C++): the coding of an alias                 *)
(*                                                                         *)
(* forward writes the alias of each code point, inverse reads it back.     *)
(* dst and src are sequences, At(s, i) is s[i] of the code.                *)

\* the size of the map of symbols: forward gives up at the 32768th symbol
MaxSymbols == 32768

\* the byte forward writes after an alias: one more alias of one byte or of
\* two, or one of the last bytes of the block
NextBytes == {0, 127, 128, 255}

\* UTFCodec::forward, "Emit aliases", for the alias of one code point (the
\* variant that shifts by a whole byte)
EmitAliasByte(dst, dstIdx, alias) ==
    IF alias >= 128
    THEN [dst |-> dst \o <<BitOr(alias, 128) % 256, (alias \div 256) % 256>>,
          dstIdx |-> dstIdx + 2]
    ELSE [dst |-> Append(dst, alias % 256), dstIdx |-> dstIdx + 1]

\* UTFCodec::forward, "Emit aliases", for the alias of one code point:
\* dst[dstIdx++] = byte(alias | 0x80); alias >>= 7 when alias >= 128, then
\* dst[dstIdx++] = byte(alias).  dst holds the dstIdx bytes written so far.
EmitAlias(dst, dstIdx, alias) ==
    IF alias >= 128
    THEN [dst |-> dst \o <<BitOr(alias, 128) % 256, (alias \div 128) % 256>>,
          dstIdx |-> dstIdx + 2]
    ELSE [dst |-> Append(dst, alias % 256), dstIdx |-> dstIdx + 1]

\* UTFCodec::inverse, "Emit data", the alias read at srcIdx:
\* alias = src[srcIdx++], and (src[srcIdx++] << 7) + (alias & 0x7F) when it
\* is 128 or more
ReadAlias(src, srcIdx) ==
    IF At(src, srcIdx) >= 128
    THEN [alias |-> At(src, srcIdx + 1) * 128 + (At(src, srcIdx) % 128),
          srcIdx |-> srcIdx + 2]
    ELSE [alias |-> At(src, srcIdx), srcIdx |-> srcIdx + 1]

AliasInit ==
    /\ aPhase = "start"
    /\ aAlias \in 0..(MaxSymbols - 1)
    /\ aDst = NoAliasDst
    /\ aInv = NoAliasInv

\* forward writes the alias and goes on with the next byte
AliasForward ==
    /\ aPhase = "start"
    /\ \E next \in NextBytes :
         aDst' = [EmitAlias(<<>>, 0, aAlias) EXCEPT !.dst = Append(@, next)]
    /\ aPhase' = "forward"
    /\ UNCHANGED <<aAlias, aInv, NotAlias>>

\* inverse reads the alias from what forward wrote
AliasInverse ==
    /\ aPhase = "forward"
    /\ aInv' = ReadAlias(aDst.dst, 0)
    /\ aPhase' = "inverse"
    /\ UNCHANGED <<aAlias, aDst, NotAlias>>

AliasNext == AliasForward \/ AliasInverse

AliasAlone ==
    AliasInit /\ CodecIdle /\ BWTIdle /\ EXEIdle /\ ROLZ1Idle /\ ROLZ2Idle /\ WrapIdle /\ ValidateIdle

SpecAlias == AliasAlone /\ [][AliasNext]_vars

\* C17: the coding of an alias round-trips.  For every alias a in
\* [0, 32767] forward emits the byte a when a < 128 and otherwise the two
\* bytes (a & 0x7F) | 0x80 and a >> 7; the alias inverse reads from them is
\* a, and inverse consumes exactly the bytes forward emitted.
C17_AliasRoundTrip ==
    /\ aPhase \in {"forward", "inverse"} =>
          /\ aAlias < 128 =>
                /\ aDst.dstIdx = 1
                /\ At(aDst.dst, 0) = aAlias
          /\ aAlias >= 128 =>
                /\ aDst.dstIdx = 2
                /\ At(aDst.dst, 0) = (aAlias % 128) + 128
                /\ At(aDst.dst, 1) = aAlias \div 128
    /\ aPhase = "inverse" =>
          /\ aInv.alias = aAlias
          /\ aInv.srcIdx = aDst.dstIdx

\* the largest alias went through forward and inverse, in two bytes
C17_Witness ==
    /\ aPhase = "inverse"
    /\ aAlias = MaxSymbols - 1
    /\ aDst.dstIdx = 2
    /\ aInv.srcIdx = 2

=============================================================================
